---- MODULE Spec2Model ----
(***************************************************************************)
(* State-machine model of the LinkedIn lead pipeline: the Record Store     *)
(* (linkedin_posts, linkedin_posts_scrapes, linkedin_engagers), the scrape *)
(* stage and ingest_scrape, company/title enrichment, and the HubSpot      *)
(* reconciliation stages.  The specifications share the variables:         *)
(*   SpecIngest  scrape stage (include/scrape.py, scripts/scrape.py)       *)
(*   SpecEnrich  company/title enrichment (enrich_companies.py,            *)
(*               enrich_hubspot_contacts.enrich_company_and_title)         *)
(*   SpecCrm     CRM reconciliation (sql_hs.py, sync_sql_to_hubspot.py,    *)
(*               one_time_migration.py)                                    *)
(*   SpecAudience  audience classification (enrich_engagers.py,            *)
(*               enrich_hubspot_contacts.enrich_audience)                  *)
(*   SpecPosts   schema setup, sheet sync and post enrichment              *)
(*   SpecPush    the push passes, scripts/sql_hs.py included               *)
(*   SpecQuery   the posts-to-scrape query over more rows than one batch   *)
(*   SpecRefetch enrich_hubspot_contacts.main: fetch, push, re-fetch, pass  *)
(*   SpecSync    field sync of sql_hs.py over a profile with two rows      *)
(*   SpecEnv     the configuration getters of airflow_utils.py             *)
(*   SpecRuns    repeated runs of the scrape stage (with fairness)         *)
(*   SpecCalls   scrape-stage runs with the scraper calls counted          *)
(*   SpecOverlap two overlapping executions of ingest_scrape               *)
(*   SpecStarved repeated company/title passes over a list longer than the *)
(*               per-run cap (with fairness)                               *)
(*   SpecBootstrap  reconciliation against an empty list                   *)
(***************************************************************************)
EXTENDS Integers, Sequences, FiniteSets, TLC

VARIABLES
    config,       \* Airflow Variables and the process environment
    lastCall,     \* the last call of an airflow_utils getter and its outcome
    schema,       \* the database's tables: table name -> column names
    setupSchema,  \* the schema the last successful setup_database.main committed
    posts,        \* linkedin_posts: set of rows
    scrapes,      \* linkedin_posts_scrapes: sequence of rows, id = index
    engagers,     \* linkedin_engagers: set of rows
    now,          \* wall clock, in days
    queue,        \* scrape stage: post urls of the query still to attempt
    running,      \* scrape stage: a run of include/scrape.py main is in its loop
    lastAttempt,  \* scrape stage: what the last loop iteration did
    lastQuery,    \* scrape stage: the last Scheduler Query and its result
    scrapeCalls,  \* scrape stage: calls of scrape_post_engagers per watched link
    ingests,      \* ingest_scrape executions in flight, each on its own connection
    todo,         \* enrichment: ids of the selected rows still to process
    enriching,    \* enrichment: a run of enrich_companies.main is in its loop
    connAborted,  \* enrichment: the shared connection's transaction is aborted
    lastStep,     \* enrichment: what the last loop iteration did
    txn,          \* enrichment: update_count and the open transaction of a batch
    remote,       \* HubSpot list: sequence of contacts, in fetch order
    lastPass,     \* CRM: what the last reconciliation pass did
    createCount,  \* CRM: create requests issued so far, per normalized key
    allCreatesOk, \* CRM: every create request so far was answered 201
    passes        \* CRM: number of passes run

envVars    == <<config, lastCall>>
schemaVars == <<schema, setupSchema>>
storeVars  == <<posts, scrapes, engagers, now>>
scrapeVars == <<queue, running, lastAttempt, lastQuery, scrapeCalls>>
enrichVars == <<todo, enriching, connAborted, lastStep, txn>>
crmVars    == <<remote, lastPass, createCount, allCreatesOk, passes>>
vars       == <<config, lastCall, schema, setupSchema, posts, scrapes, engagers, now, queue, running, lastAttempt,
                lastQuery, scrapeCalls, ingests, todo, enriching, connAborted, lastStep, txn, remote,
                lastPass, createCount, allCreatesOk, passes>>

(***************************************************************************)
(* Values.  Text columns are strings; SQL NULL / Python None / NaN is the  *)
(* value NULL.  Profile URLs are sequences of characters, so that strip,   *)
(* lower and substring search are computed and not assumed.                *)
(***************************************************************************)
NULL == "<NULL>"
NullUrl == <<"<NULL>">>
None == [kind |-> "none"]

\* pd.isnull(v) or v == "" ; `not v` for a str-or-None
IsEmpty(v) == v = NULL \/ v = ""
UrlIsEmpty(u) == u = NullUrl \/ u = <<>>

Range(s) == {s[i] : i \in 1..Len(s)}

Max(S) == IF S = {} THEN 0 ELSE CHOOSE m \in S : \A x \in S : x <= m

\* the sequences enumerating the finite set S, each element once
Perms(S) == {s \in [1..Cardinality(S) -> S] : \A x \in S : \E i \in 1..Cardinality(S) : s[i] = x}

Whitespace == {" ", "\t", "\n"}

LowerChar(c) ==
    CASE c = "A" -> "a" [] c = "B" -> "b" [] c = "C" -> "c" [] c = "D" -> "d"
      [] c = "E" -> "e" [] c = "F" -> "f" [] c = "G" -> "g" [] c = "H" -> "h"
      [] c = "I" -> "i" [] c = "J" -> "j" [] c = "K" -> "k" [] c = "L" -> "l"
      [] c = "M" -> "m" [] c = "N" -> "n" [] c = "O" -> "o" [] c = "P" -> "p"
      [] c = "Q" -> "q" [] c = "R" -> "r" [] c = "S" -> "s" [] c = "T" -> "t"
      [] c = "U" -> "u" [] c = "V" -> "v" [] c = "W" -> "w" [] c = "X" -> "x"
      [] c = "Y" -> "y" [] c = "Z" -> "z" [] OTHER -> c

\* str.lower()
Lower(s) == [i \in 1..Len(s) |-> LowerChar(s[i])]

\* str.strip(): drop leading and trailing whitespace
Strip(s) ==
    LET keep == {i \in 1..Len(s) : s[i] \notin Whitespace}
    IN  IF keep = {} THEN <<>>
        ELSE LET lo == CHOOSE i \in keep : \A j \in keep : i <= j
                 hi == CHOOSE i \in keep : \A j \in keep : j <= i
             IN  SubSeq(s, lo, hi)

\* df[col].str.strip().str.lower(); NaN stays NaN
CleanUrl(u) == IF u = NullUrl THEN NullUrl ELSE Lower(Strip(u))

\* str.contains(pat) / SQL LIKE '%pat%'
Contains(s, pat) ==
    \E i \in 1..(Len(s) - Len(pat) + 1) : SubSeq(s, i, i + Len(pat) - 1) = pat

InPattern == <<"/", "i", "n", "/">>
CompanyPattern == <<"/", "c", "o", "m", "p", "a", "n", "y", "/">>

UrlJane      == <<"/", "i", "n", "/", "J", "a", "n", "e">>
UrlJaneLower == <<"/", "i", "n", "/", "j", "a", "n", "e">>
UrlBobSpace  == <<"/", "i", "n", "/", "b", "o", "b", " ">>
UrlBob       == <<"/", "i", "n", "/", "b", "o", "b">>
UrlAnn       == <<"/", "i", "n", "/", "a", "n", "n">>
UrlAcmePage  == <<"/", "c", "o", "m", "p", "a", "n", "y", "/", "a", "c", "m", "e">>


(***************************************************************************)
(* Bounds of the model and constants of the program.                       *)
(***************************************************************************)
MaxTime == 3        \* the clock runs over 0..MaxTime days
MaxEvents == 2      \* scrape events the scrape stage may add
MaxScrapes == 5     \* include/scrape.py: p.scrape_count < 5
Cooldown == 2       \* include/scrape.py: INTERVAL '2 days'
BatchLimit == 5     \* include/scrape.py: LIMIT 5
LegacyMaxScrapes == 3   \* scripts/scrape.py: p.scrape_count < 3
NullTime == -1      \* last_scraped_at IS NULL

\* "post1?utm=x" is a tracked link whose canonical URL is "post1"; only the
\* tracked links are in linkedin_posts at the start
PostUrls == {"post1?utm=x", "post2", "post1"}
Totals == {3}

(***************************************************************************)
(* Record Store: setup_database.py / gs_sql.py DDL.                        *)
(***************************************************************************)
HasPost(ps, u) == \E p \in ps : p.post_url = u
PostOf(ps, u) == CHOOSE p \in ps : p.post_url = u
ScrapeCount(ps, u) == IF HasPost(ps, u) THEN PostOf(ps, u).scrape_count ELSE 0

Db == [posts |-> posts, scrapes |-> scrapes, engagers |-> engagers]

\* ingest_scrape: SELECT scrape_count, then INSERT (count 1) or UPDATE (count + 1)
UpsertPost(db, post_url, ran_at, total) ==
    IF ~HasPost(db.posts, post_url)
    THEN [db EXCEPT !.posts = @ \cup
            {[id |-> Max({p.id : p \in db.posts}) + 1,
              post_url |-> post_url,
              last_scraped_at |-> ran_at,
              scrape_count |-> 1,
              total_reactions |-> total]}]
    ELSE LET old == PostOf(db.posts, post_url)
             current_count == old.scrape_count
         IN  [db EXCEPT !.posts = (@ \ {old}) \cup
                {[old EXCEPT !.last_scraped_at = ran_at,
                             !.scrape_count = current_count + 1,
                             !.total_reactions = total]}]

\* ingest_scrape: INSERT INTO linkedin_posts_scrapes ... RETURNING id
InsertScrape(db, post_url, ran_at, total) ==
    [db EXCEPT !.scrapes = Append(@,
        [post_url |-> post_url, ran_at |-> ran_at, reactions_count |-> total,
         status |-> "success"])]

\* faulty variant: plain INSERT, no ON CONFLICT clause and no unique constraint
InsertEngagerNoConflict(db, scrape_id, row, post_url) ==
    [db EXCEPT !.engagers = @ \cup
        {[id |-> Max({e.id : e \in db.engagers}) + 1,
          scrape_id |-> scrape_id,
          linkedin_url |-> row.linkedin_url,
          name |-> row.name,
          headline |-> row.headline,
          engagement_type |-> row.engagement_type,
          post_url |-> post_url,
          company |-> NULL,
          title |-> NULL]}]

\* ingest_scrape: INSERT INTO linkedin_engagers ... ON CONFLICT (linkedin_url,
\* post_url) DO NOTHING, under UNIQUE(linkedin_url, post_url) (NULLs never conflict)
InsertEngager(db, scrape_id, row, post_url) ==
    IF \E e \in db.engagers :
          /\ e.linkedin_url = row.linkedin_url
          /\ e.post_url = post_url
          /\ row.linkedin_url # NullUrl
    THEN db
    ELSE [db EXCEPT !.engagers = @ \cup
            {[id |-> Max({e.id : e \in db.engagers}) + 1,
              scrape_id |-> scrape_id,
              linkedin_url |-> row.linkedin_url,
              name |-> row.name,
              headline |-> row.headline,
              engagement_type |-> row.engagement_type,
              post_url |-> post_url,
              company |-> NULL,
              title |-> NULL]}]

\* the transaction of ingest_scrape after its first k statements: the post
\* upsert, the scrape-event insert, then one engager insert per row of df
RECURSIVE TxAfter(_, _, _, _)
TxAfter(db, df, ran_at, k) ==
    IF k = 0 THEN db
    ELSE LET prev == TxAfter(db, df, ran_at, k - 1)
         IN  IF k = 1 THEN UpsertPost(prev, df.post_url, ran_at, df.total_reactions)
             ELSE IF k = 2 THEN InsertScrape(prev, df.post_url, ran_at, df.total_reactions)
             ELSE InsertEngager(prev, Len(prev.scrapes), df.rows[k - 2], df.post_url)

\* faulty variant: the error handler leaves the statements already executed in place
RollbackKeepsPartial(db, tx) == tx

\* ingest_scrape: except: conn.rollback(); conn.close(); raise
Rollback(db, tx) == db

\* number of statements of ingest_scrape's transaction for df
NStatements(df) == Len(df.rows) + 2

\* the value of failAt for a call in which no statement fails
NoFail(df) == NStatements(df) + 1

\* ingest_scrape(df): failAt is the number of statements executed before the
\* failing one (NStatements(df): conn.commit() itself fails), or NoFail(df)
IngestScrape(db, df, ran_at, failAt) ==
    IF failAt = NoFail(df)
    THEN [db |-> TxAfter(db, df, ran_at, NStatements(df)), raised |-> FALSE]
    ELSE [db |-> Rollback(db, TxAfter(db, df, ran_at, failAt)), raised |-> TRUE]


\* the tasks that can be inside ingest_scrape at one time: two runs of the
\* scrape stage that overlap
Workers == {1, 2}

\* no execution of ingest_scrape is in flight
NoIngests == [w \in Workers |-> [pc |-> "idle"]]

\* ingest_scrape: result of SELECT scrape_count ... WHERE post_url = %s
\* (None: no row; a NULL count reads as 0)
SelectScrapeCount(ps, post_url) ==
    IF HasPost(ps, post_url) THEN [kind |-> "row", scrape_count |-> PostOf(ps, post_url).scrape_count]
    ELSE None

\* ingest_scrape after its SELECT returned result: INSERT with count 1 (a
\* unique violation when the row exists by now), or UPDATE ... SET
\* scrape_count = current_count + 1 with the count that was read
WritePost(db, post_url, ran_at, total, result) ==
    IF result = None
    THEN IF HasPost(db.posts, post_url) THEN [ok |-> FALSE, db |-> db]
         ELSE [ok |-> TRUE, db |-> UpsertPost(db, post_url, ran_at, total)]
    ELSE IF ~HasPost(db.posts, post_url) THEN [ok |-> TRUE, db |-> db]
         ELSE LET old == PostOf(db.posts, post_url)
              IN  [ok |-> TRUE,
                   db |-> [db EXCEPT !.posts = (@ \ {old}) \cup
                             {[old EXCEPT !.last_scraped_at = ran_at,
                                          !.scrape_count = result.scrape_count + 1,
                                          !.total_reactions = total]}]]

\* the statements of ingest_scrape after the post's: the scrape-event insert
\* and the first k engager inserts
RECURSIVE RestOfTx(_, _, _, _)
RestOfTx(db, df, ran_at, k) ==
    IF k = 0 THEN InsertScrape(db, df.post_url, ran_at, df.total_reactions)
    ELSE LET prev == RestOfTx(db, df, ran_at, k - 1)
         IN  InsertEngager(prev, Len(prev.scrapes), df.rows[k], df.post_url)

(***************************************************************************)
(* Scrape stage: include/scrape.py main, and the earlier scripts/scrape.py *)
(***************************************************************************)
NeverScraped(p) == p.last_scraped_at = NullTime

\* include/scrape.py WHERE clause
Eligible(p, t) ==
    /\ p.scrape_count < MaxScrapes
    /\ (p.last_scraped_at = NullTime \/ p.last_scraped_at < t - Cooldown)

\* include/scrape.py ORDER BY: never scraped first, then p.id DESC
Before(a, b) ==
    \/ NeverScraped(a) /\ ~NeverScraped(b)
    \/ NeverScraped(a) = NeverScraped(b) /\ a.id > b.id

\* the rows of S in the order of the ORDER BY clause
Ordered(S) ==
    CHOOSE s \in Perms(S) : \A i, j \in 1..Len(s) : i < j => Before(s[i], s[j])

\* faulty variant: the query without its LIMIT clause
NoLimit(s, n) == s

\* LIMIT n
FirstN(s, n) == SubSeq(s, 1, IF Len(s) < n THEN Len(s) ELSE n)

\* include/scrape.py "Posts to scrape query"
ScrapeQuery(ps, t) ==
    LET rows == FirstN(Ordered({p \in ps : Eligible(p, t)}), BatchLimit)
    IN  [i \in 1..Len(rows) |-> rows[i].post_url]

LegacyBefore(a, b) == a.id > b.id

LegacyOrdered(S) ==
    CHOOSE s \in Perms(S) : \A i, j \in 1..Len(s) : i < j => LegacyBefore(s[i], s[j])

\* scripts/scrape.py "Posts to scrape query":
\* WHERE p.last_scraped_at IS NULL OR p.scrape_count < 3 ORDER BY id DESC LIMIT 5
LegacyScrapeQuery(ps) ==
    LET rows == FirstN(LegacyOrdered({p \in ps : \/ p.last_scraped_at = NullTime
                                                 \/ p.scrape_count < LegacyMaxScrapes}),
                       BatchLimit)
    IN  [i \in 1..Len(rows) |-> rows[i].post_url]

\* flat records Apify can return for one reaction
RowJane  == [linkedin_url |-> UrlJane, name |-> "Jane", headline |-> "VC", engagement_type |-> "LIKE"]
RowJaneD == [linkedin_url |-> UrlJane, name |-> "Jane D", headline |-> "Partner", engagement_type |-> "PRAISE"]
RowBob   == [linkedin_url |-> UrlBob, name |-> "Bob", headline |-> "CEO", engagement_type |-> "LIKE"]

\* the non-empty row lists of a scrape: one reactor, the same reactor twice
\* (two reactions of one profile), two reactors
RowSeqs == { <<RowJane>>, <<RowJane, RowJaneD>>, <<RowBob, RowJane>> }

\* _metadata.post_url of the records returned for link
MetaUrls(link) == IF link = "post1?utm=x" THEN {"post1?utm=x", "post1"} ELSE {link}

\* the DataFrames scrape_post_engagers(link) can return
ScrapeResults(link) ==
    [post_url : MetaUrls(link), total_reactions : Totals, rows : RowSeqs]

MaxCalls == 6       \* calls counted per watched link (the count stops there)

\* no link is watched
NoCalls == [u \in {} |-> 0]

\* utils.scrape_post_engagers(row["link"]) was called: one more call of link
Called(calls, link) ==
    IF link \in DOMAIN calls /\ calls[link] < MaxCalls
    THEN [calls EXCEPT ![link] = @ + 1] ELSE calls

\* faulty variant: an error in one iteration ends the loop
AbortBatch(q) == <<>>

\* except Exception: log, sleep, continue: the rows left after a failed one
ContinueAfterError(q) == Tail(q)

\* main: the query, then the loop over its rows
ScrapeMainStart ==
    /\ ~running
    /\ lastQuery' = [kind |-> "include", rows |-> ScrapeQuery(posts, now)]
    /\ queue' = ScrapeQuery(posts, now)
    /\ running' = TRUE
    /\ UNCHANGED <<envVars, ingests, schemaVars, storeVars, lastAttempt, scrapeCalls, enrichVars, crmVars>>

\* loop body: scrape_post_engagers raises (an Apify error, or zero items:
\* pd.DataFrame([])['reactor'] is a KeyError); caught, logged, continue
ScrapeRaises ==
    /\ running /\ queue # <<>>
    /\ \E returned \in BOOLEAN :
          lastAttempt' = [link |-> Head(queue), returned |-> returned,
                          failed |-> FALSE, result |-> "scrape_error"]
    /\ queue' = ContinueAfterError(queue)
    /\ scrapeCalls' = Called(scrapeCalls, Head(queue))
    /\ UNCHANGED <<envVars, ingests, schemaVars, storeVars, running, lastQuery, enrichVars, crmVars>>

\* loop body: the scrape returns rows and ingest_scrape raises; caught, continue
IngestRaises ==
    /\ running /\ queue # <<>>
    /\ \E df \in ScrapeResults(Head(queue)) : \E failAt \in 0..NStatements(df) :
          LET r == IngestScrape(Db, df, now, failAt)
          IN  /\ posts' = r.db.posts
              /\ scrapes' = r.db.scrapes
              /\ engagers' = r.db.engagers
              /\ lastAttempt' = [link |-> Head(queue), returned |-> TRUE,
                                 failed |-> TRUE,
                                 result |-> IF r.raised THEN "ingest_error" ELSE "ok"]
    /\ queue' = ContinueAfterError(queue)
    /\ scrapeCalls' = Called(scrapeCalls, Head(queue))
    /\ UNCHANGED <<envVars, ingests, schemaVars, now, running, lastQuery, enrichVars, crmVars>>

\* loop body: the scrape returns rows and ingest_scrape commits
IngestOk ==
    /\ running /\ queue # <<>>
    /\ Len(scrapes) < MaxEvents
    /\ \E df \in ScrapeResults(Head(queue)) :
          LET r == IngestScrape(Db, df, now, NoFail(df))
          IN  /\ posts' = r.db.posts
              /\ scrapes' = r.db.scrapes
              /\ engagers' = r.db.engagers
              /\ lastAttempt' = [link |-> Head(queue), returned |-> TRUE,
                                 failed |-> FALSE,
                                 result |-> IF r.raised THEN "ingest_error" ELSE "ok"]
    /\ queue' = Tail(queue)
    /\ scrapeCalls' = Called(scrapeCalls, Head(queue))
    /\ UNCHANGED <<envVars, ingests, schemaVars, now, running, lastQuery, enrichVars, crmVars>>

\* main: the loop is over; final summary, close
ScrapeMainFinish ==
    /\ running /\ queue = <<>>
    /\ running' = FALSE
    /\ UNCHANGED <<envVars, ingests, schemaVars, storeVars, queue, lastAttempt, lastQuery, scrapeCalls, enrichVars, crmVars>>

\* scripts/scrape.py main: the query, then a loop in which every iteration
\* raises (utils.scrape_post is not defined in scripts/utils.py) and is caught
LegacyScrapeMain ==
    /\ ~running
    /\ lastQuery' = [kind |-> "legacy", rows |-> LegacyScrapeQuery(posts)]
    /\ UNCHANGED <<envVars, ingests, schemaVars, storeVars, queue, running, lastAttempt, scrapeCalls, enrichVars, crmVars>>

\* a day passes between two runs (a run lasts minutes: at most BatchLimit
\* posts, each followed by a sleep of at most 120 s)
Tick ==
    /\ ~running
    /\ now < MaxTime
    /\ now' = now + 1
    /\ UNCHANGED <<envVars, ingests, schemaVars, posts, scrapes, engagers, scrapeVars, enrichVars, crmVars>>

(***************************************************************************)
(* Schema: setup_database.py DDL_QUERIES and main, the CREATE TABLE        *)
(* statements of scripts/gs_sql.py, the DDL of enrich_companies.py.        *)
(* A schema maps each table that exists to the set of its columns.         *)
(***************************************************************************)
EmptySchema == [t \in {} |-> {}]

HasTable(s, t) == t \in DOMAIN s

\* scripts/gs_sql.py CREATE TABLE linkedin_posts
PostsColumns ==
    {"id", "post_url", "post_name", "last_scraped_at", "scrape_count", "total_reactions",
     "text", "post_type", "comments", "reposts", "reshared_post_url",
     "reshared_post_total_reactions", "media_type", "media_url", "article_url",
     "article_title", "duration", "mime_type", "thumbnail", "video_url", "image_url"}

ScrapesColumns == {"id", "post_url", "ran_at", "reactions_count", "cost", "status"}

EngagersColumns ==
    {"id", "scrape_id", "linkedin_url", "name", "headline", "engagement_type", "post_url",
     "pushed_to_hubspot"}

Create(t, cols, refs) == [op |-> "create", table |-> t, cols |-> cols, refs |-> refs]
AddColumn(t, c) == [op |-> "add_column", table |-> t, cols |-> {c}, refs |-> {}]
DropColumn(t, c) == [op |-> "drop_column", table |-> t, cols |-> {c}, refs |-> {}]
Rename(t, to) == [op |-> "rename", table |-> t, cols |-> {}, refs |-> {to}]
DropTable(t) == [op |-> "drop_table", table |-> t, cols |-> {}, refs |-> {}]

\* setup_database.DDL_QUERIES
DDL_QUERIES ==
    << Create("linkedin_posts", PostsColumns \cup {"enriched", "enriched_time"}, {}),
       AddColumn("linkedin_posts", "sponsored"),
       AddColumn("linkedin_posts", "time_to_create"),
       AddColumn("linkedin_posts", "sentiment"),
       AddColumn("linkedin_posts", "target_audience"),
       AddColumn("linkedin_posts", "video_type"),
       Create("linkedin_posts_scrapes", ScrapesColumns, {"linkedin_posts"}),
       Rename("linkedin_engagers", "linkedin_engagers_by_post"),
       Create("linkedin_engagers_by_post", EngagersColumns, {"linkedin_posts_scrapes"}),
       DropColumn("linkedin_engagers_by_post", "company"),
       DropColumn("linkedin_engagers_by_post", "title"),
       DropColumn("linkedin_engagers_by_post", "engager_audience"),
       DropColumn("linkedin_engagers_by_post", "engager_bucketed_position"),
       DropTable("linkedin_companies") >>

\* scripts/gs_sql.py main: the three CREATE TABLE IF NOT EXISTS
GsSqlDdl ==
    << Create("linkedin_posts", PostsColumns, {}),
       Create("linkedin_posts_scrapes", ScrapesColumns, {"linkedin_posts"}),
       Create("linkedin_engagers", EngagersColumns, {"linkedin_posts_scrapes"}) >>

\* enrich_companies.ensure_columns_exist, ensure_companies_table_exists
EnrichCompaniesDdl ==
    << AddColumn("linkedin_engagers", "company"),
       AddColumn("linkedin_engagers", "title"),
       Create("linkedin_companies", {"id", "company_name", "company_url"}, {}) >>

\* what PostgreSQL does with one statement: CREATE TABLE IF NOT EXISTS (the
\* referenced tables must exist), ADD COLUMN [IF NOT EXISTS] and DROP COLUMN
\* IF EXISTS (the table must exist), ALTER TABLE IF EXISTS .. RENAME TO (the
\* new name must be free), DROP TABLE IF EXISTS
ExecDdl(s, q) ==
    CASE q.op = "create" ->
            IF HasTable(s, q.table) THEN [ok |-> TRUE, schema |-> s]
            ELSE IF \E r \in q.refs : ~HasTable(s, r) THEN [ok |-> FALSE, schema |-> s]
            ELSE [ok |-> TRUE, schema |-> s @@ (q.table :> q.cols)]
      [] q.op = "add_column" ->
            IF ~HasTable(s, q.table) THEN [ok |-> FALSE, schema |-> s]
            ELSE [ok |-> TRUE, schema |-> [s EXCEPT ![q.table] = @ \cup q.cols]]
      [] q.op = "drop_column" ->
            IF ~HasTable(s, q.table) THEN [ok |-> FALSE, schema |-> s]
            ELSE [ok |-> TRUE, schema |-> [s EXCEPT ![q.table] = @ \ q.cols]]
      [] q.op = "rename" ->
            IF ~HasTable(s, q.table) THEN [ok |-> TRUE, schema |-> s]
            ELSE IF \E to \in q.refs : HasTable(s, to) THEN [ok |-> FALSE, schema |-> s]
            ELSE [ok |-> TRUE,
                  schema |-> [t \in (DOMAIN s \ {q.table}) \cup q.refs |->
                                 IF t \in q.refs THEN s[q.table] ELSE s[t]]]
      [] q.op = "drop_table" ->
            [ok |-> TRUE, schema |-> [t \in DOMAIN s \ {q.table} |-> s[t]]]

\* cursor.execute for the first k statements of qs in one transaction: the
\* first failing statement ends it
RECURSIVE RunDdl(_, _, _)
RunDdl(s, qs, k) ==
    IF k = 0 THEN [ok |-> TRUE, schema |-> s]
    ELSE LET prev == RunDdl(s, qs, k - 1)
         IN  IF prev.ok THEN ExecDdl(prev.schema, qs[k]) ELSE prev

\* the for loop of setup_database.main over its statements
RunAllDdl(s, qs) == RunDdl(s, qs, Len(qs))

\* the schema the pipeline stages run on: setup on an empty database, then
\* gs_sql.main and enrich_companies.main created what they need
PipelineSchema ==
    RunAllDdl(RunAllDdl(RunAllDdl(EmptySchema, DDL_QUERIES).schema, GsSqlDdl).schema,
              EnrichCompaniesDdl).schema

\* the deployment: tasks run under Airflow, no Airflow Variable is defined,
\* the settings come from the process environment
IdleEnv ==
    /\ config = [airflow |-> "present",
                 variables |-> [n \in {"HUBSPOT_API_KEY", "HUBSPOT_LIST_ID"} |-> NULL],
                 environ |-> [n \in {"HUBSPOT_API_KEY", "HUBSPOT_LIST_ID"} |-> "env"]]
    /\ lastCall = None

IdleSchema == schema = PipelineSchema /\ setupSchema = RunAllDdl(EmptySchema, DDL_QUERIES).schema

\* no batch yet: update_count = 0, nothing written in the open transaction
NoTxn == [update_count |-> 0, undo |-> {}, updated |-> {}]

IdleEnrich ==
    /\ todo = {} /\ enriching = "idle" /\ connAborted = FALSE /\ lastStep = None
    /\ txn = NoTxn

IdleCrm ==
    /\ remote = <<>> /\ lastPass = None /\ createCount = [k \in {} |-> 0]
    /\ allCreatesOk = TRUE /\ passes = 0

\* after gs_sql.main: the tracked links, never scraped
InitIngest ==
    /\ posts = { [id |-> 1, post_url |-> "post1?utm=x", last_scraped_at |-> NullTime,
                  scrape_count |-> 0, total_reactions |-> 0],
                 [id |-> 2, post_url |-> "post2", last_scraped_at |-> NullTime,
                  scrape_count |-> 0, total_reactions |-> 0] }
    /\ scrapes = <<>>
    /\ engagers = {}
    /\ now = 0
    /\ IdleSchema
    /\ IdleEnv
    /\ queue = <<>> /\ running = FALSE /\ lastAttempt = None /\ lastQuery = None
    /\ scrapeCalls = NoCalls
    /\ ingests = NoIngests
    /\ IdleEnrich
    /\ IdleCrm

NextIngest ==
    \/ ScrapeMainStart
    \/ ScrapeRaises
    \/ IngestRaises
    \/ IngestOk
    \/ ScrapeMainFinish
    \/ LegacyScrapeMain
    \/ Tick

SpecIngest == InitIngest /\ [][NextIngest]_vars


(***************************************************************************)
(* Claims about the scrape stage and ingest_scrape (SpecIngest).           *)
(***************************************************************************)
\* a loop iteration of include/scrape.py main is taken
AttemptStep == running /\ queue # <<>> /\ queue' = Tail(queue)

AllScrapeResults == [post_url : PostUrls, total_reactions : Totals, rows : RowSeqs]

C7_IngestionAtomicity ==
    [][ (AttemptStep /\ lastAttempt'.failed)
            => /\ posts' = posts
               /\ scrapes' = scrapes
               /\ engagers' = engagers
               /\ lastAttempt'.result = "ingest_error"
               /\ \A p \in posts : Eligible(p, now) => (p \in posts' /\ Eligible(p, now'))
      ]_vars

\* an ingestion failed on the scheduled post, after an earlier one had
\* committed, and the scheduled post is still eligible
C7_Witness ==
    /\ lastAttempt # None
    /\ lastAttempt.failed
    /\ lastAttempt.result = "ingest_error"
    /\ scrapes # <<>>
    /\ Eligible(PostOf(posts, lastAttempt.link), now)

\* C8: when the scrape of a post returns (with 0 to N reaction rows) and no
\* statement of the ingestion fails, the post's scrape_count grows by exactly 1
\* and exactly one Scrape Event row is added.
C8_ScrapeCountPlusOne ==
    [][ (AttemptStep /\ lastAttempt'.returned /\ ~lastAttempt'.failed)
            => /\ ScrapeCount(posts', Head(queue)) = ScrapeCount(posts, Head(queue)) + 1
               /\ Len(scrapes') = Len(scrapes) + 1
      ]_vars

\* C9: every post a Scheduler Query returns has scrape_count < MAX_SCRAPES and
\* was never scraped or was last scraped more than the cooldown ago.
C9_QueryRespectsCooldownAndMax ==
    ~running =>
        \A q \in {ScrapeQuery(posts, now), LegacyScrapeQuery(posts)} :
            \A i \in 1..Len(q) : Eligible(PostOf(posts, q[i]), now)


(***************************************************************************)
(* Enrichment Appliers: enrich_companies.py on linkedin_engagers and       *)
(* enrich_hubspot_contacts.enrich_company_and_title on HubSpot contacts.   *)
(***************************************************************************)
\* what the profile scraper can report for a profile
CompanyValues == {NULL, "", "Acme"}
TitleValues == {NULL, "CEO"}

\* utils.scrape_company: {"company": ..., "title": ...}, None where not found
ScrapeCompanyResults == [company : CompanyValues, title : TitleValues]

\* enrich_companies.migrate_companies_from_engagers:
\* DELETE FROM linkedin_engagers WHERE linkedin_url LIKE '%/company/%'
MigrateCompaniesFromEngagers(es) ==
    {e \in es : ~Contains(e.linkedin_url, CompanyPattern)}

\* enrich_companies.get_unenriched_engagers WHERE clause (AND binds before OR)
Unenriched(e) ==
    \/ e.company = NULL
    \/ e.company = ""
    \/ e.title = NULL
    \/ (e.title = "" /\ e.linkedin_url # NullUrl /\ e.linkedin_url # <<>>)

GetUnenrichedEngagers(es) == {e.id : e \in {x \in es : Unenriched(x)}}

\* enrich_companies.enrich_and_update_engagers:
\* UPDATE linkedin_engagers SET company = %s, title = %s WHERE id = %s
UpdateEngager(es, id, company, title) ==
    {IF e.id = id THEN [e EXCEPT !.company = company, !.title = title] ELSE e : e \in es}

EngagerOf(es, id) == CHOOSE e \in es : e.id = id

\* enrich_companies.main up to the loop: migration, then the selection
EnrichCompaniesStart ==
    /\ enriching = "idle"
    /\ engagers' = MigrateCompaniesFromEngagers(engagers)
    /\ todo' = GetUnenrichedEngagers(MigrateCompaniesFromEngagers(engagers))
    /\ enriching' = "companies"
    /\ UNCHANGED <<envVars, ingests, schemaVars, posts, scrapes, now, scrapeVars, txn, connAborted, lastStep, crmVars>>

\* one iteration of enrich_and_update_engagers: scrape_company raises, or the
\* UPDATE raises (the transaction stays aborted for the rest of the run), or
\* the UPDATE commits
EnrichCompaniesRow ==
    /\ enriching = "companies" /\ todo # {}
    /\ \E id \in todo :
        LET e == EngagerOf(engagers, id)
            before == [company |-> e.company, title |-> e.title]
        IN  /\ todo' = todo \ {id}
            /\ \/ /\ lastStep' = [applier |-> "companies", id |-> id, before |-> before,
                                  got |-> None, db_error |-> FALSE,
                                  written |-> {}, after |-> before]
                  /\ UNCHANGED <<engagers, connAborted>>
               \/ \E got \in ScrapeCompanyResults : \E db_error \in BOOLEAN :
                     IF connAborted \/ db_error
                     THEN /\ lastStep' = [applier |-> "companies", id |-> id,
                                          before |-> before, got |-> got,
                                          db_error |-> db_error,
                                          written |-> {}, after |-> before]
                          /\ connAborted' = TRUE
                          /\ UNCHANGED engagers
                     ELSE /\ engagers' = UpdateEngager(engagers, id, got.company, got.title)
                          /\ lastStep' = [applier |-> "companies", id |-> id,
                                          before |-> before, got |-> got,
                                          db_error |-> FALSE,
                                          written |-> {"company", "title"},
                                          after |-> [company |-> got.company,
                                                     title |-> got.title]]
                          /\ UNCHANGED connAborted
    /\ UNCHANGED <<envVars, ingests, schemaVars, posts, scrapes, now, scrapeVars, enriching, txn, crmVars>>

\* enrich_companies.main: finally: cursor.close(); conn.close()
EnrichCompaniesFinish ==
    /\ enriching = "companies" /\ todo = {}
    /\ enriching' = "idle"
    /\ connAborted' = FALSE
    /\ UNCHANGED <<envVars, ingests, schemaVars, storeVars, scrapeVars, txn, todo, lastStep, crmVars>>

\* enrich_hubspot_contacts.needs_company_title_enrichment
NeedsCompanyTitleEnrichment(c) == IsEmpty(c.company) \/ IsEmpty(c.jobtitle)

\* enrich_company_and_title: the keys of update_fields
UpdateFields(c, got) ==
    {f \in {"company", "jobtitle"} :
        LET v == IF f = "company" THEN got.company ELSE got.title
        IN  v # NULL /\ v # "" /\ v # c[f]}

\* utils.hubspot_update_contact_fields: PATCH of the given properties
HubspotUpdateContactFields(cs, i, fields, got) ==
    [cs EXCEPT ![i] = [f \in DOMAIN cs[i] |->
        IF f \in fields
        THEN (IF f = "company" THEN got.company ELSE got.title)
        ELSE cs[i][f]]]

\* enrich_company_and_title up to the loop: the contacts missing a field
EnrichContactsStart ==
    /\ enriching = "idle"
    /\ todo' = {i \in 1..Len(remote) : NeedsCompanyTitleEnrichment(remote[i])}
    /\ enriching' = "contacts"
    /\ UNCHANGED <<envVars, ingests, schemaVars, storeVars, scrapeVars, txn, connAborted, lastStep, crmVars>>

\* one iteration of the loop of enrich_company_and_title
EnrichContactsRow ==
    /\ enriching = "contacts" /\ todo # {}
    /\ \E i \in todo :
        LET c == remote[i]
            before == [company |-> c.company, title |-> c.jobtitle]
        IN  /\ todo' = todo \ {i}
            /\ IF UrlIsEmpty(c.linkedin_url)
               THEN UNCHANGED <<remote, lastStep>>
               ELSE \E got \in ScrapeCompanyResults :
                      LET fields == UpdateFields(c, got)
                          cs == HubspotUpdateContactFields(remote, i, fields, got)
                      IN  /\ remote' = cs
                          /\ lastStep' = [applier |-> "contacts", id |-> c.vid,
                                          before |-> before, got |-> got,
                                          written |-> fields,
                                          after |-> [company |-> cs[i].company,
                                                     title |-> cs[i].jobtitle]]
    /\ UNCHANGED <<envVars, ingests, schemaVars, storeVars, scrapeVars, txn, enriching, connAborted,
                   lastPass, createCount, allCreatesOk, passes>>

EnrichContactsFinish ==
    /\ enriching = "contacts" /\ todo = {}
    /\ enriching' = "idle"
    /\ UNCHANGED <<envVars, ingests, schemaVars, storeVars, scrapeVars, txn, todo, connAborted, lastStep, crmVars>>

\* reaction rows of a company page and of a reactor without a profile URL
RowAcmePage == [linkedin_url |-> UrlAcmePage, name |-> "Acme", headline |-> "",
                engagement_type |-> "LIKE"]
RowAnon == [linkedin_url |-> NullUrl, name |-> "LinkedIn Member", headline |-> "",
            engagement_type |-> "LIKE"]

EmptyDb == [posts |-> {}, scrapes |-> <<>>, engagers |-> {}]

\* the store after one scrape of "post2" was ingested
IngestedDb ==
    LET df == [post_url |-> "post2", total_reactions |-> 3,
               rows |-> <<RowJane, RowAcmePage, RowAnon>>]
    IN  IngestScrape(EmptyDb, df, 0, NoFail(df)).db

\* the list contacts: one created by a push (no company, no job title), one
\* whose company a CRM user entered, one without a profile URL
ListContacts ==
    << [vid |-> 101, linkedin_url |-> UrlJaneLower, company |-> NULL, jobtitle |-> NULL],
       [vid |-> 102, linkedin_url |-> UrlBob, company |-> "Acme", jobtitle |-> NULL],
       [vid |-> 103, linkedin_url |-> NullUrl, company |-> NULL, jobtitle |-> NULL] >>

InitEnrich ==
    /\ posts = IngestedDb.posts
    /\ scrapes = IngestedDb.scrapes
    /\ engagers = IngestedDb.engagers
    /\ now = 0
    /\ IdleSchema
    /\ IdleEnv
    /\ queue = <<>> /\ running = FALSE /\ lastAttempt = None /\ lastQuery = None
    /\ scrapeCalls = NoCalls
    /\ ingests = NoIngests
    /\ IdleEnrich
    /\ remote = ListContacts
    /\ lastPass = None /\ createCount = [k \in {} |-> 0] /\ allCreatesOk = TRUE /\ passes = 0

NextEnrich ==
    \/ EnrichCompaniesStart
    \/ EnrichCompaniesRow
    \/ EnrichCompaniesFinish
    \/ EnrichContactsStart
    \/ EnrichContactsRow
    \/ EnrichContactsFinish

SpecEnrich == InitEnrich /\ [][NextEnrich]_vars


(***************************************************************************)
(* Claims about the Enrichment Appliers (SpecEnrich).                      *)
(***************************************************************************)
\* a stored value survives: it was empty, or it is still non-empty
Keeps(a, b) == IsEmpty(a) \/ ~IsEmpty(b)

\* one iteration of an Applier's loop is taken
EnrichRowStep == enriching # "idle" /\ enriching' = enriching /\ todo' # todo

\* C1: an Applier never leaves a field empty that was non-empty before, and a
\* missing field for which a usable value was obtained (and whose write did
\* not fail) is filled.
C1_EnrichmentNeverRegresses ==
    [][ /\ \A e \in engagers : \A f \in engagers' :
              e.id = f.id => (Keeps(e.company, f.company) /\ Keeps(e.title, f.title))
        /\ \A i \in 1..Len(remote) :
              /\ Keeps(remote[i].company, remote'[i].company)
              /\ Keeps(remote[i].jobtitle, remote'[i].jobtitle)
        /\ (EnrichRowStep /\ lastStep' # lastStep /\ lastStep'.got # None
              /\ (lastStep'.applier = "contacts" \/ lastStep'.written # {}))
            => /\ (IsEmpty(lastStep'.before.company) /\ ~IsEmpty(lastStep'.got.company))
                    => lastStep'.after.company = lastStep'.got.company
               /\ (IsEmpty(lastStep'.before.title) /\ ~IsEmpty(lastStep'.got.title))
                    => lastStep'.after.title = lastStep'.got.title
      ]_vars

\* C10: every field an Applier writes carries a value that is non-null,
\* non-empty and different from the stored one.
C10_WritesOnlyRealChanges ==
    [][ (EnrichRowStep /\ lastStep' # lastStep)
            => \A f \in lastStep'.written :
                  LET v == IF f = "company" THEN lastStep'.got.company
                                            ELSE lastStep'.got.title
                      old == IF f = "company" THEN lastStep'.before.company
                                              ELSE lastStep'.before.title
                  IN  ~IsEmpty(v) /\ v # old
      ]_vars


(***************************************************************************)
(* CRM reconciliation: include/sql_hs.py, include/sync_sql_to_hubspot.py,  *)
(* include/one_time_migration.py against the HubSpot list.                 *)
(***************************************************************************)
PageSize == 1       \* contacts per page of the list endpoint
MaxPasses == 2      \* reconciliation and migration runs

\* number of GET requests a complete fetch of cs takes (at least one)
NRequests(cs) ==
    IF Len(cs) = 0 THEN 1 ELSE (Len(cs) + PageSize - 1) \div PageSize

\* utils.hubspot_fetch_list_contacts: request failPage answers non-200 and the
\* loop breaks with the contacts of the earlier pages; failPage = 0: none fails
HubspotFetchListContacts(cs, failPage) ==
    IF failPage = 0 THEN cs
    ELSE SubSeq(cs, 1, (failPage - 1) * PageSize)

\* sql_hs / sync_sql_to_hubspot "Local engagers query": the distinct
\* (linkedin_url, name, headline) of engagers joined with their post
LocalEngagers(es, ps) ==
    {[linkedin_url |-> e.linkedin_url, name |-> e.name, headline |-> e.headline] :
        e \in {x \in es : HasPost(ps, x.post_url)}}

NextVid(cs) == Max({cs[i].vid : i \in 1..Len(cs)} \cup {100}) + 1

\* faulty variant: the loop ends with the first request that fails
PushRequestsUntilFailure(urls, ok) ==
    LET bad == (1..Len(urls)) \ ok
    IN  IF bad = {} THEN urls
        ELSE SubSeq(urls, 1, CHOOSE k \in bad : \A j \in bad : k <= j)

\* utils.hubspot_push_contacts_to_list: the rows for which requests.post is
\* called, in df.iterrows() order; ok holds the indexes answered 201, the
\* others get another status or make requests.post raise (both only logged)
PushRequests(urls, ok) == urls

\* utils.hubspot_push_contacts_to_list after its first k rows: one POST per
\* row; the rows whose index is in ok get 201 and become contacts
RECURSIVE PushAfter(_, _, _, _)
PushAfter(cs, urls, ok, k) ==
    IF k = 0 THEN cs
    ELSE LET prev == PushAfter(cs, urls, ok, k - 1)
         IN  IF k \in ok
             THEN Append(prev, [vid |-> NextVid(prev), linkedin_url |-> urls[k],
                                company |-> NULL, jobtitle |-> NULL])
             ELSE prev

\* create requests counted per Normalized Key
AddCreates(cc, urls) ==
    LET keys == {CleanUrl(urls[i]) : i \in 1..Len(urls)}
    IN  [k \in DOMAIN cc \cup keys |->
            (IF k \in DOMAIN cc THEN cc[k] ELSE 0)
            + Cardinality({i \in 1..Len(urls) : CleanUrl(urls[i]) = k})]

\* sql_hs.main lines 73-85: raw-URL difference, drop_duplicates on the URL
\* column, then the '/in/' filter
SqlHsToUpload(fetched, local) ==
    LET existing_urls == {fetched[i].linkedin_url : i \in 1..Len(fetched)} \ {NullUrl}
    IN  {r.linkedin_url : r \in local} \ existing_urls

\* sync_sql_to_hubspot.main lines 42-70: rows with a URL, difference on the
\* cleaned URLs, '/in/' filter (na=False); no drop_duplicates
SyncToUpload(fetched, local) ==
    LET existing_urls ==
            {CleanUrl(fetched[i].linkedin_url) : i \in 1..Len(fetched)} \ {NullUrl}
    IN  {r \in local : /\ ~UrlIsEmpty(r.linkedin_url)
                       /\ CleanUrl(r.linkedin_url) \notin existing_urls
                       /\ Contains(r.linkedin_url, InPattern)}

\* the update candidates of a merged frame: per matched (contact, local row)
\* pair, the local company for "company" and the local title for "jobtitle"
Candidates(merged) ==
    UNION {{[idx |-> p[1], field |-> "company", value |-> p[2].company, row |-> p[2]],
            [idx |-> p[1], field |-> "jobtitle", value |-> p[2].title, row |-> p[2]]} :
              p \in merged}

\* sql_hs.main lines 110-147: merge on the raw URL; a field is carried when
\* the local value is non-null, non-empty and differs from HubSpot's
SqlHsUpdates(cs, es) ==
    LET local == {e \in es : ~UrlIsEmpty(e.linkedin_url)}
        merged == {p \in (1..Len(cs)) \X local :
                      cs[p[1]].linkedin_url = p[2].linkedin_url}
    IN  {u \in Candidates(merged) :
            u.value # NULL /\ u.value # "" /\ u.value # cs[u.idx][u.field]}

\* one_time_migration.main "RDS Enriched Engagers"
RdsEngagers(es) ==
    {[linkedin_url |-> e.linkedin_url, company |-> e.company, title |-> e.title] :
        e \in {x \in es : /\ ~UrlIsEmpty(x.linkedin_url)
                          /\ (x.company # NULL \/ x.title # NULL)}}

\* one_time_migration.main lines 128-160: merge on the cleaned URL; a field is
\* carried when the local value is not null and differs from HubSpot's
MigrationUpdates(cs, rds) ==
    LET merged == {p \in (1..Len(cs)) \X rds :
                      /\ cs[p[1]].linkedin_url # NullUrl
                      /\ CleanUrl(cs[p[1]].linkedin_url) = CleanUrl(p[2].linkedin_url)}
    IN  {u \in Candidates(merged) :
            u.value # NULL /\ u.value # cs[u.idx][u.field]}

\* the requests that decide the values a pass leaves: one request per merged
\* row, sent in the order of the merged frame (the local rows come in the
\* order the database returns them: no ORDER BY), the last one for a field
\* of a contact wins
LastWrites(updates) ==
    LET rows == {u.row : u \in updates}
        Pos(order, r) == CHOOSE k \in 1..Len(order) : order[k] = r
    IN  {{u \in updates : \A v \in updates :
              (v.idx = u.idx /\ v.field = u.field) => Pos(order, v.row) <= Pos(order, u.row)} :
          order \in Perms(rows)}

\* PATCH requests, one per field of a contact, applied to the contacts
ApplyUpdates(cs, updates) ==
    [i \in 1..Len(cs) |->
        [f \in DOMAIN cs[i] |->
            IF \E u \in updates : u.idx = i /\ u.field = f
            THEN (CHOOSE u \in updates : u.idx = i /\ u.field = f).value
            ELSE cs[i][f]]]

\* what a pass leaves for inspection: the updates with the value they replace
Sent(cs, updates) ==
    {[vid |-> cs[u.idx].vid, field |-> u.field, value |-> u.value,
      remote |-> cs[u.idx][u.field]] : u \in updates}


\* sql_hs.main: fetch, difference, push, then the update of existing contacts
\* (utils.hubspot_fetch_all_contacts and utils.hubspot_update_contact are not
\* defined in utils.py; they are taken to return every contact and to PATCH
\* the fields given)
SqlHsMain ==
    /\ passes < MaxPasses
    /\ passes' = passes + 1
    /\ \E failPage \in 0..NRequests(remote) :
        LET fetched == HubspotFetchListContacts(remote, failPage)
            to_upload == SqlHsToUpload(fetched, LocalEngagers(engagers, posts))
            \* hubspot_engagers['linkedin_url'] on a frame without columns, or
            \* a mask with NaN from str.contains: main raises before the push
            raised == fetched = <<>> \/ NullUrl \in to_upload
        IN  IF raised
            THEN /\ lastPass' = [stage |-> "sql_hs", fetched |-> fetched,
                                 failed |-> failPage # 0, creates |-> <<>>, candidates |-> <<>>, ok |-> {},
                                 updates |-> {}]
                 /\ UNCHANGED <<remote, createCount, allCreatesOk>>
            ELSE \E urls \in Perms({u \in to_upload : Contains(u, InPattern)}) :
                 \E ok \in SUBSET (1..Len(urls)) :
                    LET pushed == PushAfter(remote, urls, ok, Len(PushRequests(urls, ok)))
                        updates == SqlHsUpdates(pushed, engagers)
                    IN  /\ \E last \in LastWrites(updates) :
                              remote' = ApplyUpdates(pushed, last)
                        /\ createCount' = AddCreates(createCount, PushRequests(urls, ok))
                        /\ allCreatesOk' = (allCreatesOk /\ ok = 1..Len(urls))
                        /\ lastPass' = [stage |-> "sql_hs", fetched |-> fetched,
                                        failed |-> failPage # 0, creates |-> PushRequests(urls, ok),
                                        candidates |-> urls, ok |-> ok,
                                        updates |-> Sent(pushed, updates)]
    /\ UNCHANGED <<envVars, ingests, schemaVars, storeVars, scrapeVars, enrichVars>>

\* sync_sql_to_hubspot.main: fetch, difference on cleaned URLs, push
SyncSqlToHubspotMain ==
    /\ passes < MaxPasses
    /\ passes' = passes + 1
    /\ \E failPage \in 0..NRequests(remote) :
        LET fetched == HubspotFetchListContacts(remote, failPage)
            to_upload == SyncToUpload(fetched, LocalEngagers(engagers, posts))
        IN  IF fetched = <<>>
            THEN \* hubspot_contacts_df['hs_linkedin_url'] raises KeyError
                 /\ lastPass' = [stage |-> "sync", fetched |-> fetched,
                                 failed |-> failPage # 0, creates |-> <<>>, candidates |-> <<>>, ok |-> {},
                                 updates |-> {}]
                 /\ UNCHANGED <<remote, createCount, allCreatesOk>>
            ELSE \E rows \in Perms(to_upload) : \E ok \in SUBSET (1..Len(rows)) :
                    LET urls == [i \in 1..Len(rows) |-> rows[i].linkedin_url]
                    IN  /\ remote' = PushAfter(remote, urls, ok, Len(PushRequests(urls, ok)))
                        /\ createCount' = AddCreates(createCount, PushRequests(urls, ok))
                        /\ allCreatesOk' = (allCreatesOk /\ ok = 1..Len(urls))
                        /\ lastPass' = [stage |-> "sync", fetched |-> fetched,
                                        failed |-> failPage # 0, creates |-> PushRequests(urls, ok),
                                        candidates |-> urls, ok |-> ok,
                                        updates |-> {}]
    /\ UNCHANGED <<envVars, ingests, schemaVars, storeVars, scrapeVars, enrichVars>>

\* scripts/sql_hs.py main lines 72-75: the rows whose raw URL no fetched
\* contact has; no '/in/' filter, no drop_duplicates
LegacySqlHsToUpload(fetched, local) ==
    LET existing_urls == {fetched[i].linkedin_url : i \in 1..Len(fetched)} \ {NullUrl}
    IN  {r \in local : r.linkedin_url \notin existing_urls}

\* scripts/sql_hs.py main: fetch, difference on the raw URLs, push
LegacySqlHsMain ==
    /\ passes < MaxPasses
    /\ passes' = passes + 1
    /\ \E failPage \in 0..NRequests(remote) :
        LET fetched == HubspotFetchListContacts(remote, failPage)
            to_upload == LegacySqlHsToUpload(fetched, LocalEngagers(engagers, posts))
        IN  IF fetched = <<>>
            THEN \* hubspot_engagers['linkedin_url'] raises KeyError
                 /\ lastPass' = [stage |-> "legacy_sql_hs", fetched |-> fetched,
                                 failed |-> failPage # 0, creates |-> <<>>,
                                 candidates |-> <<>>, ok |-> {}, updates |-> {}]
                 /\ UNCHANGED <<remote, createCount, allCreatesOk>>
            ELSE \E rows \in Perms(to_upload) : \E ok \in SUBSET (1..Len(rows)) :
                    LET urls == [i \in 1..Len(rows) |-> rows[i].linkedin_url]
                    IN  /\ remote' = PushAfter(remote, urls, ok, Len(PushRequests(urls, ok)))
                        /\ createCount' = AddCreates(createCount, PushRequests(urls, ok))
                        /\ allCreatesOk' = (allCreatesOk /\ ok = 1..Len(urls))
                        /\ lastPass' = [stage |-> "legacy_sql_hs", fetched |-> fetched,
                                        failed |-> failPage # 0,
                                        creates |-> PushRequests(urls, ok),
                                        candidates |-> urls, ok |-> ok, updates |-> {}]
    /\ UNCHANGED <<envVars, ingests, schemaVars, storeVars, scrapeVars, enrichVars>>

\* one_time_migration.main: the enriched local rows, the list, the merge, one
\* PATCH per matched contact with something to update (accepted gives the
\* contacts whose PATCH answers 200)
OneTimeMigrationMain ==
    /\ passes < MaxPasses
    /\ passes' = passes + 1
    /\ \E failPage \in 0..NRequests(remote) :
        LET rds == RdsEngagers(engagers)
            fetched == IF rds = {} THEN <<>>
                       ELSE HubspotFetchListContacts(remote, failPage)
            updates == MigrationUpdates(fetched, rds)
        IN  \E accepted \in SUBSET {u.idx : u \in updates} :
              /\ \E last \in LastWrites({u \in updates : u.idx \in accepted}) :
                    remote' = ApplyUpdates(remote, last)
              /\ lastPass' = [stage |-> "migration", fetched |-> fetched,
                              failed |-> (rds # {} /\ failPage # 0),
                              creates |-> <<>>, candidates |-> <<>>, ok |-> {},
                              updates |-> Sent(fetched, updates)]
    /\ UNCHANGED <<envVars, ingests, schemaVars, storeVars, scrapeVars, enrichVars, createCount, allCreatesOk>>

\* reaction rows and the store the reconciliation reads: two posts, Jane
\* reacting to both under two display names, Bob, a company page
CrmDb ==
    LET df1 == [post_url |-> "post1", total_reactions |-> 3, rows |-> <<RowJane, RowBob>>]
        df2 == [post_url |-> "post2", total_reactions |-> 3,
                rows |-> <<RowJaneD, RowAcmePage>>]
        d1 == IngestScrape(EmptyDb, df1, 0, NoFail(df1)).db
    IN  IngestScrape(d1, df2, 0, NoFail(df2)).db

BobId == (CHOOSE e \in CrmDb.engagers : e.linkedin_url = UrlBob).id

\* the list before the first pass: two contacts a CRM user entered
CrmContacts ==
    << [vid |-> 101, linkedin_url |-> UrlAnn, company |-> NULL, jobtitle |-> NULL],
       [vid |-> 102, linkedin_url |-> UrlBobSpace, company |-> "Acme", jobtitle |-> NULL] >>

\* after ingestion and one enrich_companies run that reached Bob's row
InitCrm ==
    /\ posts = CrmDb.posts
    /\ scrapes = CrmDb.scrapes
    /\ \E got \in ScrapeCompanyResults :
          engagers = UpdateEngager(CrmDb.engagers, BobId, got.company, got.title)
    /\ now = 0
    /\ IdleSchema
    /\ IdleEnv
    /\ queue = <<>> /\ running = FALSE /\ lastAttempt = None /\ lastQuery = None
    /\ scrapeCalls = NoCalls
    /\ ingests = NoIngests
    /\ IdleEnrich
    /\ remote = CrmContacts
    /\ lastPass = None /\ createCount = [k \in {} |-> 0]
    /\ allCreatesOk = TRUE /\ passes = 0

NextCrm ==
    \/ SqlHsMain
    \/ SyncSqlToHubspotMain
    \/ OneTimeMigrationMain

SpecCrm == InitCrm /\ [][NextCrm]_vars

(***************************************************************************)
(* Claims about CRM reconciliation (SpecCrm).                              *)
(***************************************************************************)
\* C2: no create request of a pass is for a profile whose Normalized Key
\* (trimmed, lower-cased URL) is the key of a contact the pass fetched.
C2_DedupByNormalizedKey ==
    lastPass # None =>
        \A i \in 1..Len(lastPass.creates) :
            ~\E j \in 1..Len(lastPass.fetched) :
                /\ lastPass.fetched[j].linkedin_url # NullUrl
                /\ CleanUrl(lastPass.fetched[j].linkedin_url) = CleanUrl(lastPass.creates[i])

\* C3: every update sent to the CRM carries only values that are non-null,
\* non-empty and different from the remote value they replace.
C3_NoRegressCrmUpdate ==
    lastPass # None =>
        \A u \in lastPass.updates : ~IsEmpty(u.value) /\ u.value # u.remote

\* C4: as long as every create request succeeded, no Normalized Key has had
\* more than one create request, over all passes.
C4_AtMostOneCreatePerKey ==
    allCreatesOk => \A k \in DOMAIN createCount : createCount[k] <= 1

\* C5: a pass in which a page of the list fetch failed sends no create request.
C5_NoCreatesFromPartialFetch ==
    (lastPass # None /\ lastPass.failed) => lastPass.creates = <<>>


(***************************************************************************)
(* Audience classification: classify_audience_with_openai (the same code   *)
(* in enrich_engagers.py and enrich_hubspot_contacts.py), the selector and *)
(* applier of enrich_engagers.py on linkedin_engagers, and                 *)
(* enrich_hubspot_contacts.enrich_audience_classification on the list.     *)
(***************************************************************************)
\* valid_audiences
ValidAudiences ==
    {"Venture Capital Related", "Venture Capital Backed Startup", "Marketing Agency", "Other"}

\* a key the JSON object of the answer does not have
Missing == "<missing>"

\* what the chat completion can give: the call raises, the text is not JSON,
\* the JSON is not an object, or an object whose "audience" and "position"
\* are a string, null (audience only) or absent
ClassifierAnswers ==
    [kind : {"api_error", "bad_json", "not_object"}, audience : {Missing}, position : {Missing}]
    \cup [kind : {"object"},
          audience : {"Marketing Agency", "Other", "Investor", NULL, Missing},
          position : {"Partner", Missing}]

\* faulty variant: the answer is returned without the valid_audiences test
ClassifyUnvalidated(ans) ==
    IF ans.kind # "object"
    THEN [audience |-> "Other", position |-> "Other", raised |-> FALSE]
    ELSE [audience |-> IF ans.audience = Missing THEN "Other" ELSE ans.audience,
          position |-> IF ans.position = Missing THEN "Other" ELSE ans.position,
          raised |-> FALSE]

\* classify_audience_with_openai: classification.get(key, "Other"), the
\* valid_audiences test, and except Exception: return "Other", "Other"
ClassifyAudienceWithOpenai(ans) ==
    IF ans.kind # "object"
    THEN [audience |-> "Other", position |-> "Other", raised |-> FALSE]
    ELSE LET audience == IF ans.audience = Missing THEN "Other" ELSE ans.audience
             position == IF ans.position = Missing THEN "Other" ELSE ans.position
         IN  IF audience \notin ValidAudiences
             THEN [audience |-> "Other", position |-> "Other", raised |-> FALSE]
             ELSE [audience |-> audience, position |-> position, raised |-> FALSE]

AudienceBatchLimit == 100   \* enrich_engagers.get_unenriched_engagers: LIMIT 100

\* enrich_engagers.get_unenriched_engagers WHERE clause
NeedsAudience(e) ==
    /\ (e.engager_audience = NULL \/ e.engager_audience = "")
    /\ (e.engager_bucketed_position = NULL \/ e.engager_bucketed_position = "")
    /\ e.company # NULL /\ e.company # ""
    /\ e.title # NULL /\ e.title # ""
    /\ e.linkedin_url # NullUrl /\ e.linkedin_url # <<>>

\* the results the query can give: LIMIT without ORDER BY keeps any
\* AudienceBatchLimit of the matching rows
GetUnenrichedForAudience(es) ==
    LET match == {e.id : e \in {x \in es : NeedsAudience(x)}}
    IN  IF Cardinality(match) <= AudienceBatchLimit THEN {match}
        ELSE {sel \in SUBSET match : Cardinality(sel) = AudienceBatchLimit}

\* enrich_engagers.enrich_and_update_engagers:
\* UPDATE linkedin_engagers SET engager_audience = %s, engager_bucketed_position = %s
UpdateAudience(es, id, audience, position) ==
    {IF e.id = id THEN [e EXCEPT !.engager_audience = audience,
                                 !.engager_bucketed_position = position]
     ELSE e : e \in es}

CommitEvery == 10   \* enrich_engagers.enrich_and_update_engagers: update_count % 10 == 0

\* the transaction after a successful UPDATE of row e: update_count += 1, and
\* conn.commit() when update_count % 10 == 0 (nothing is left to undo)
AfterUpdate(t, e) ==
    [update_count |-> t.update_count + 1,
     undo |-> IF (t.update_count + 1) % CommitEvery = 0 THEN {} ELSE t.undo \cup {e},
     updated |-> t.updated \cup {e.id}]

\* conn.commit(): COMMIT ends an aborted transaction as a ROLLBACK, which
\* puts back the rows as they were before the uncommitted updates
Commit(es, t, aborted) ==
    IF aborted
    THEN {e \in es : e.id \notin {u.id : u \in t.undo}} \cup t.undo
    ELSE es

\* enrich_engagers.main up to the loop
AudienceStart ==
    /\ enriching = "idle"
    /\ \E sel \in GetUnenrichedForAudience(engagers) : todo' = sel
    /\ enriching' = "audience"
    /\ txn' = NoTxn
    /\ UNCHANGED <<envVars, ingests, schemaVars, storeVars, scrapeVars, connAborted, lastStep, crmVars>>

\* one iteration of enrich_engagers.enrich_and_update_engagers: the UPDATE
\* raises (every later statement of the transaction raises too), or it is
\* applied and counted
AudienceRow ==
    /\ enriching = "audience" /\ todo # {}
    /\ \E id \in todo : \E ans \in ClassifierAnswers : \E db_error \in BOOLEAN :
          LET r == ClassifyAudienceWithOpenai(ans)
          IN  /\ todo' = todo \ {id}
              /\ IF connAborted \/ db_error
                 THEN /\ connAborted' = TRUE
                      /\ lastStep' = [applier |-> "audience", id |-> id, answer |-> ans,
                                      result |-> r, written |-> FALSE]
                      /\ UNCHANGED <<engagers, txn>>
                 ELSE /\ engagers' = UpdateAudience(engagers, id, r.audience, r.position)
                      /\ txn' = AfterUpdate(txn, EngagerOf(engagers, id))
                      /\ lastStep' = [applier |-> "audience", id |-> id, answer |-> ans,
                                      result |-> r, written |-> TRUE]
                      /\ UNCHANGED connAborted
    /\ UNCHANGED <<envVars, ingests, schemaVars, posts, scrapes, now, scrapeVars, enriching, crmVars>>

\* enrich_and_update_engagers: final commit; enrich_engagers.main: statistics,
\* finally: conn.close()
AudienceFinish ==
    /\ enriching = "audience" /\ todo = {}
    /\ enriching' = "idle"
    /\ engagers' = Commit(engagers, txn, connAborted)
    /\ txn' = [txn EXCEPT !.undo = {}]
    /\ connAborted' = FALSE
    /\ UNCHANGED <<envVars, ingests, schemaVars, posts, scrapes, now, scrapeVars, todo, lastStep, crmVars>>


HubspotAudienceCapCheck == 1000   \* enrich_audience_classification: len(...) > 1000
HubspotAudienceCap == 50          \* enrich_audience_classification: head(50)

\* enrich_hubspot_contacts.enrich_audience_classification.needs_audience_enrichment
NeedsAudienceEnrichment(c) ==
    /\ c.company # NULL /\ c.company # "" /\ c.jobtitle # NULL /\ c.jobtitle # ""
    /\ \/ c.engager_audience = NULL \/ c.engager_audience = ""
       \/ c.engager_bucketed_position = NULL \/ c.engager_bucketed_position = ""

\* contacts_needing_audience: the matching rows in list order, cut to the
\* first HubspotAudienceCap when there are more than HubspotAudienceCapCheck
ContactsNeedingAudience(cs) ==
    LET match == {i \in DOMAIN cs : NeedsAudienceEnrichment(cs[i])}
    IN  IF Cardinality(match) > HubspotAudienceCapCheck
        THEN {i \in match : Cardinality({j \in match : j < i}) < HubspotAudienceCap}
        ELSE match

\* update_fields of enrich_audience_classification: a value is sent when it
\* is truthy and differs from the one the contact has
AudienceUpdateFields(c, r) ==
    {f \in {"engager_audience"} : r.audience # NULL /\ r.audience # "" /\ r.audience # c.engager_audience}
    \cup {f \in {"engager_bucketed_position"} :
             r.position # NULL /\ r.position # "" /\ r.position # c.engager_bucketed_position}

\* utils.hubspot_update_contact_fields with the audience properties
HubspotUpdateAudienceFields(cs, i, fields, r) ==
    [cs EXCEPT ![i].engager_audience =
                   IF "engager_audience" \in fields THEN r.audience ELSE @,
               ![i].engager_bucketed_position =
                   IF "engager_bucketed_position" \in fields THEN r.position ELSE @]

\* enrich_hubspot_contacts.main, step 5, up to the loop
HubspotAudienceStart ==
    /\ enriching = "idle"
    /\ todo' = ContactsNeedingAudience(remote)
    /\ enriching' = "hs_audience"
    /\ UNCHANGED <<envVars, ingests, schemaVars, storeVars, scrapeVars, txn, connAborted, lastStep, crmVars>>

\* one iteration of the loop of enrich_audience_classification (iterrows order)
HubspotAudienceRow ==
    /\ enriching = "hs_audience" /\ todo # {}
    /\ LET i == CHOOSE k \in todo : \A j \in todo : k <= j
           c == remote[i]
       IN  \E ans \in ClassifierAnswers :
              LET r == ClassifyAudienceWithOpenai(ans)
                  fields == AudienceUpdateFields(c, r)
              IN  /\ todo' = todo \ {i}
                  /\ remote' = HubspotUpdateAudienceFields(remote, i, fields, r)
                  /\ lastStep' = [applier |-> "hs_audience", id |-> c.vid, answer |-> ans,
                                  result |-> r]
    /\ UNCHANGED <<envVars, ingests, schemaVars, storeVars, scrapeVars, txn, enriching, connAborted,
                   lastPass, createCount, allCreatesOk, passes>>

HubspotAudienceFinish ==
    /\ enriching = "hs_audience" /\ todo = {}
    /\ enriching' = "idle"
    /\ UNCHANGED <<envVars, ingests, schemaVars, storeVars, scrapeVars, txn, todo, connAborted, lastStep, crmVars>>

\* the audience columns of linkedin_engagers, which rows get outside ingestion
WithAudience(e, audience, position) ==
    [id |-> e.id, scrape_id |-> e.scrape_id, linkedin_url |-> e.linkedin_url,
     name |-> e.name, headline |-> e.headline, engagement_type |-> e.engagement_type,
     post_url |-> e.post_url, company |-> e.company, title |-> e.title,
     engager_audience |-> audience, engager_bucketed_position |-> position]

\* company, title, engager_audience, engager_bucketed_position of the second
\* engager and of the second contact
AudienceProfiles ==
    { <<"Acme", "CEO", NULL, NULL>>, <<"Acme", "CEO", "", "Partner">>,
      <<"Acme", "CEO", "Other", NULL>>, <<"Acme", "CEO", "Other", "Partner">>,
      <<NULL, "CEO", NULL, NULL>>, <<"Acme", "", NULL, NULL>> }

\* the store after one scrape of "post2" with two people was ingested
AudienceDb ==
    LET df == [post_url |-> "post2", total_reactions |-> 3, rows |-> <<RowJane, RowBob>>]
    IN  IngestScrape(EmptyDb, df, 0, NoFail(df)).db

AudienceEngagers(pr) ==
    {WithAudience(e, NULL, NULL) :
        e \in {x \in UpdateEngager(AudienceDb.engagers, 1, "Acme", "CEO") : x.id = 1}}
    \cup {WithAudience(e, pr[3], pr[4]) :
        e \in {x \in UpdateEngager(AudienceDb.engagers, 2, pr[1], pr[2]) : x.id = 2}}

AudienceContacts(pr) ==
    << [vid |-> 101, linkedin_url |-> UrlJaneLower, company |-> "Acme", jobtitle |-> "CEO",
        engager_audience |-> NULL, engager_bucketed_position |-> NULL],
       [vid |-> 102, linkedin_url |-> UrlBob, company |-> pr[1], jobtitle |-> pr[2],
        engager_audience |-> pr[3], engager_bucketed_position |-> pr[4]] >>

InitAudience ==
    /\ posts = AudienceDb.posts
    /\ scrapes = AudienceDb.scrapes
    /\ now = 0
    /\ IdleSchema
    /\ IdleEnv
    /\ queue = <<>> /\ running = FALSE /\ lastAttempt = None /\ lastQuery = None
    /\ scrapeCalls = NoCalls
    /\ ingests = NoIngests
    /\ IdleEnrich
    /\ \E pr \in AudienceProfiles :
          /\ engagers = AudienceEngagers(pr)
          /\ remote = AudienceContacts(pr)
    /\ lastPass = None /\ createCount = [k \in {} |-> 0] /\ allCreatesOk = TRUE /\ passes = 0

NextAudience ==
    \/ AudienceStart
    \/ AudienceRow
    \/ AudienceFinish
    \/ HubspotAudienceStart
    \/ HubspotAudienceRow
    \/ HubspotAudienceFinish

SpecAudience == InitAudience /\ [][NextAudience]_vars


\* the classifier could not give a valid category: the call or the parsing
\* raised, or the answer names a category outside valid_audiences
NoValidCategory(ans) ==
    \/ ans.kind # "object"
    \/ ans.audience # Missing /\ ans.audience \notin ValidAudiences

ClassifyStep == lastStep # None /\ lastStep.applier \in {"audience", "hs_audience"}

\* C11: whatever the classifier answers, the audience the applier gets is one
\* of the fixed valid categories and no exception reaches the caller; when the
\* call fails, the answer cannot be parsed or it names a category outside the
\* set, the result is exactly ("Other", "Other").
C11_ClassificationFallback ==
    ClassifyStep =>
        /\ lastStep.result.audience \in ValidAudiences
        /\ ~lastStep.result.raised
        /\ NoValidCategory(lastStep.answer) =>
              lastStep.result.audience = "Other" /\ lastStep.result.position = "Other"

\* an answer naming an unknown category, with a position, was received for an
\* engager and (Other, Other) was stored
C11_Witness ==
    /\ ClassifyStep /\ lastStep.applier = "audience"
    /\ lastStep.answer.kind = "object" /\ lastStep.answer.audience = "Investor"
    /\ lastStep.answer.position = "Partner"
    /\ \E e \in engagers : e.id = lastStep.id /\ e.engager_audience = "Other"
                           /\ e.engager_bucketed_position = "Other"


\* company, title and profile URL are there and the audience is not
AudienceDue(company, title, url, audience) ==
    /\ ~IsEmpty(company) /\ ~IsEmpty(title) /\ ~UrlIsEmpty(url)
    /\ IsEmpty(audience)

C12_FailureDoesNotAbortBatch ==
    [][ /\ (~running /\ running') =>
              (lastQuery'.rows = ScrapeQuery(posts, now) /\ queue' = lastQuery'.rows)
        /\ (running /\ queue # <<>>) =>
              /\ running'
              /\ lastAttempt'.link = Head(queue)
              /\ queue' = Tail(queue)
              /\ lastQuery' = lastQuery
        /\ (running /\ ~running') => queue = <<>>
      ]_vars

\* a run over two posts ended: nothing was ever committed, so the attempt of
\* the first post failed, and the second post was attempted after it and
\* failed too
C12_Witness ==
    /\ ~running /\ lastQuery # None /\ lastQuery.kind = "include"
    /\ Len(lastQuery.rows) = 2
    /\ lastAttempt # None
    /\ lastAttempt.link = lastQuery.rows[2]
    /\ lastAttempt.result # "ok"
    /\ scrapes = <<>>


(***************************************************************************)
(* The push loop of the reconciliation passes (SpecCrm).                   *)
(***************************************************************************)
\* C13: in a pass that reaches the push, the create requests sent are exactly
\* the candidates, one each and in their order, whichever of them fail; and
\* every candidate answered 201 is a new contact of the list after the pass,
\* next to all contacts that were there before.
C13_FailedPushDoesNotStopLoop ==
    [][ (passes' # passes /\ lastPass'.stage \in {"sql_hs", "sync", "legacy_sql_hs"}) =>
            /\ lastPass'.creates = lastPass'.candidates
            /\ Len(remote') = Len(remote) + Cardinality(lastPass'.ok)
            /\ \A i \in 1..Len(remote) : remote'[i].vid = remote[i].vid
            /\ \A k \in lastPass'.ok :
                  \E i \in (Len(remote) + 1)..Len(remote') :
                      remote'[i].linkedin_url = lastPass'.candidates[k]
      ]_vars

\* a pass pushed two candidates: the first request failed, the second was
\* sent all the same and created its contact
C13_Witness ==
    /\ lastPass # None
    /\ Len(lastPass.candidates) >= 2
    /\ lastPass.creates = lastPass.candidates
    /\ 1 \notin lastPass.ok /\ 2 \in lastPass.ok
    /\ \E i \in 1..Len(remote) : remote[i].linkedin_url = lastPass.candidates[2]


(***************************************************************************)
(* Schema setup, spreadsheet sync and post enrichment (SpecPosts):         *)
(* setup_database.main, scripts/gs_sql.py main, the DDL at the start of    *)
(* enrich_companies.main, the post enrichment pass of include/utils.py     *)
(* (get_unenriched_posts_from_db .. ingest_enriched_data_to_db, chained as *)
(* enrich_posts.main does) and the one of scripts/utils.py.                *)
(* Of the enrichment columns, text stands for those the profile scrape     *)
(* gives and duration for those the media scrape gives.                    *)
(***************************************************************************)
Faults == {"none", "db", "credential"}

\* str.split('?')[0] and split_part(post_url, '?', 1) on the post URLs
SplitQuery(u) == IF u = "post1?utm=x" THEN "post1" ELSE u

\* row.get(key)
Get(row, key) == IF key \in DOMAIN row THEN row[key] ELSE NULL

\* the spreadsheet's rows (link, post) at a sync
SheetVersions ==
    { << [link |-> "post1", post |-> "Launch"] >>,
      << [link |-> "post1", post |-> "Launch"], [link |-> "post1?utm=x", post |-> "Repost"] >>,
      << [link |-> "post1", post |-> "Launch v2"] >> }

\* gs_sql.main: INSERT INTO linkedin_posts .. VALUES (%s, %s, NULL, 0, 0)
\* ON CONFLICT(post_url) DO UPDATE SET post_name=EXCLUDED.post_name, for the
\* first k rows of the sheet
RECURSIVE GsSqlUpsert(_, _, _)
GsSqlUpsert(ps, links, k) ==
    IF k = 0 THEN ps
    ELSE LET prev == GsSqlUpsert(ps, links, k - 1)
             row == links[k]
         IN  IF HasPost(prev, row.link)
             THEN {IF p.post_url = row.link THEN [p EXCEPT !.post_name = row.post] ELSE p :
                      p \in prev}
             ELSE prev \cup
                  {[id |-> Max({p.id : p \in prev} \cup {0}) + 1, post_url |-> row.link,
                    post_name |-> row.post, last_scraped_at |-> NullTime,
                    scrape_count |-> 0, total_reactions |-> 0,
                    enriched |-> FALSE, text |-> NULL, duration |-> NULL]}

\* SELECT .. FROM linkedin_posts WHERE enriched = FALSE (the column is there
\* only when setup_database created the table)
QueryFails(s, fault) ==
    fault # "none" \/ ~HasTable(s, "linkedin_posts") \/ "enriched" \notin s["linkedin_posts"]

\* utils.get_unenriched_posts_from_db: the frame (post_url, post_name, id) in
\* one of its row orders; every failure gives the empty frame
GetUnenrichedPostsFromDb(ps, s, fault) ==
    IF QueryFails(s, fault) THEN {<<>>}
    ELSE {[i \in 1..Len(o) |-> [post_url |-> o[i].post_url, post_name |-> o[i].post_name,
                                id |-> o[i].id]] :
             o \in Perms({p \in ps : ~p.enriched})}

\* what scrape_post_media_info gives for a post: no item, or a row with the
\* post's canonical URL and a duration (NULL when the media is no video)
MediaResults(url) ==
    {<<>>} \cup {<<[post_url |-> SplitQuery(url), duration |-> d]>> : d \in {NULL, "0:10"}}

\* pd.concat of the media rows of the urls, in order
RECURSIVE ConcatAll(_)
ConcatAll(frames) == IF frames = <<>> THEN <<>> ELSE Head(frames) \o ConcatAll(Tail(frames))

\* the frames prepare_media_enrichment_data can return for the urls
PrepareMediaEnrichmentData(urls) ==
    {ConcatAll(pick) : pick \in {f \in [1..Len(urls) -> UNION {MediaResults(u) : u \in Range(urls)}] :
                                    \A i \in 1..Len(urls) : f[i] \in MediaResults(urls[i])}}

\* include/utils.finalize_enrichment_output: DataFrame.merge(how='left',
\* left_on='url_clean', right_on='post_url') of the frame (post_url,
\* post_name, id, url_clean) with the media frame (post_url, duration): both
\* have a column post_url, so the result has post_url_x and post_url_y
FinalizeEnrichmentOutput(unenriched, media) ==
    ConcatAll([i \in 1..Len(unenriched) |->
        LET l == unenriched[i]
            url_clean == SplitQuery(l.post_url)
            hits == SelectSeq(media, LAMBDA r : r.post_url = url_clean)
            row(y, d) == [post_url_x |-> l.post_url, post_name |-> l.post_name, id |-> l.id,
                          url_clean |-> url_clean, post_url_y |-> y, duration |-> d]
        IN  IF hits = <<>> THEN <<row(NULL, NULL)>>
            ELSE [j \in 1..Len(hits) |-> row(hits[j].post_url, hits[j].duration)]])

\* scripts/utils.finalize_enrichment_output: the same merge with the profile
\* frame (url, text) on the left
LegacyFinalizeEnrichmentOutput(profile, media) ==
    ConcatAll([i \in 1..Len(profile) |->
        LET l == profile[i]
            url_clean == SplitQuery(l.url)
            hits == SelectSeq(media, LAMBDA r : r.post_url = url_clean)
            row(y, d) == [url |-> l.url, text |-> l.text, url_clean |-> url_clean,
                          post_url |-> y, duration |-> d]
        IN  IF hits = <<>> THEN <<row(NULL, NULL)>>
            ELSE [j \in 1..Len(hits) |-> row(hits[j].post_url, hits[j].duration)]])

\* UPDATE linkedin_posts SET <col> = %s for every col of columns_to_update
\* (None for NaN), enriched = TRUE
SetColumns(p, row, cols) ==
    [c \in DOMAIN p |-> IF c = "enriched" THEN TRUE
                        ELSE IF c \in cols THEN Get(row, c)
                        ELSE p[c]]

\* ingest_enriched_data_to_db after the first k rows of df: a row whose
\* row.get(key) is missing is skipped; the others update every post whose
\* split_part(post_url, '?', 1) is the row's cleaned URL
RECURSIVE IngestEnrichedDataToDb(_, _, _, _, _)
IngestEnrichedDataToDb(ps, df, key, cols, k) ==
    IF k = 0 THEN ps
    ELSE LET prev == IngestEnrichedDataToDb(ps, df, key, cols, k - 1)
             post_url == Get(df[k], key)
         IN  IF post_url = NULL THEN prev
             ELSE {IF SplitQuery(p.post_url) = SplitQuery(post_url)
                   THEN SetColumns(p, df[k], cols) ELSE p : p \in prev}


\* what the last entry point did: its name, the fatal error it met, whether
\* it ended with a raised exception
Outcome(applier, fault, raised) == [applier |-> applier, fault |-> fault, raised |-> raised]

postsIdle == <<envVars, ingests, scrapes, engagers, now, scrapeVars, todo, enriching, connAborted, txn, crmVars>>

\* setup_database.main: connect, the statements of DDL_QUERIES in one
\* transaction, commit; any exception: rollback and raise
SetupDatabaseMain ==
    /\ \E fault \in Faults :
          LET r == RunAllDdl(schema, DDL_QUERIES)
          IN  IF fault = "none" /\ r.ok
              THEN /\ schema' = r.schema
                   /\ setupSchema' = r.schema
                   /\ lastStep' = Outcome("setup", fault, FALSE)
              ELSE /\ UNCHANGED schemaVars
                   /\ lastStep' = Outcome("setup", fault, TRUE)
    /\ UNCHANGED <<posts, postsIdle>>

\* scripts/gs_sql.py main: the sheet, connect, the CREATE TABLE statements,
\* the upsert of every sheet row, commit; every exception is raised
GsSqlMain ==
    /\ \E fault \in Faults : \E links \in SheetVersions :
          LET r == RunAllDdl(schema, GsSqlDdl)
          IN  IF fault = "none" /\ r.ok
              THEN /\ schema' = r.schema
                   /\ posts' = GsSqlUpsert(posts, links, Len(links))
                   /\ lastStep' = Outcome("gs_sql", fault, FALSE)
              ELSE /\ UNCHANGED <<schema, posts>>
                   /\ lastStep' = Outcome("gs_sql", fault, TRUE)
    /\ UNCHANGED <<setupSchema, postsIdle>>

\* enrich_companies.main while linkedin_engagers has no rows:
\* ensure_columns_exist, ensure_companies_table_exists, commit; nothing to
\* migrate or enrich; an exception leaves main (try/finally)
EnrichCompaniesSetup ==
    /\ engagers = {}
    /\ \E fault \in Faults :
          LET r == RunAllDdl(schema, EnrichCompaniesDdl)
          IN  IF fault = "none" /\ r.ok
              THEN /\ schema' = r.schema
                   /\ lastStep' = Outcome("enrich_companies", fault, FALSE)
              ELSE /\ UNCHANGED schema
                   /\ lastStep' = Outcome("enrich_companies", fault, TRUE)
    /\ UNCHANGED <<setupSchema, posts, postsIdle>>

\* enrich_posts.main over the functions of include/utils.py: an empty frame
\* at any stage is exit(0); ingest_enriched_data_to_db logs a failure of its
\* own connection and returns
EnrichPostsMain ==
    /\ \E fault \in Faults : \E unenriched \in GetUnenrichedPostsFromDb(posts, schema, fault) :
          IF unenriched = <<>>
          THEN /\ UNCHANGED posts
               /\ lastStep' = Outcome("enrich_posts", fault, FALSE)
          ELSE \E media \in PrepareMediaEnrichmentData(
                                [i \in 1..Len(unenriched) |-> unenriched[i].post_url]) :
               \E ingestFault \in Faults :
                  LET merged == FinalizeEnrichmentOutput(unenriched, media)
                  IN  /\ posts' = IF media = <<>> \/ ingestFault # "none" THEN posts
                                  ELSE IngestEnrichedDataToDb(posts, merged, "post_url",
                                                              {"duration"}, Len(merged))
                      /\ lastStep' = Outcome("enrich_posts",
                                             IF media = <<>> THEN "none" ELSE ingestFault, FALSE)
    /\ UNCHANGED <<envVars, ingests, schemaVars, postsIdle>>

\* the items scripts/utils.scrape_posts_by_profile gets from the profile
\* scraper: the profile's latest posts with their text
ProfileScrapes ==
    {<<>>} \cup {<<[url |-> "post1", text |-> t]>> : t \in {NULL, "hello"}}

\* the pass of scripts/utils.py (scrape_posts_by_profile ..
\* ingest_enriched_data_to_db): the number of unenriched posts limits the
\* profile scrape; the rows are matched by row.get('url')
LegacyEnrichPosts ==
    /\ \E fault \in Faults : \E profile \in ProfileScrapes :
          LET max_posts == IF QueryFails(schema, fault) THEN 0
                           ELSE Cardinality({p \in posts : ~p.enriched})
          IN  IF max_posts = 0 \/ profile = <<>>
              THEN /\ UNCHANGED posts
                   /\ lastStep' = Outcome("legacy_enrich_posts", fault, FALSE)
              ELSE \E media \in PrepareMediaEnrichmentData(
                                    [i \in 1..Len(profile) |-> profile[i].url]) :
                   \E ingestFault \in Faults :
                      LET merged == LegacyFinalizeEnrichmentOutput(profile, media)
                      IN  /\ posts' = IF media = <<>> \/ ingestFault # "none" THEN posts
                                      ELSE IngestEnrichedDataToDb(posts, merged, "url",
                                                                  {"text", "duration"},
                                                                  Len(merged))
                          /\ lastStep' = Outcome("legacy_enrich_posts",
                                                 IF media = <<>> THEN "none" ELSE ingestFault,
                                                 FALSE)
    /\ UNCHANGED <<envVars, ingests, schemaVars, postsIdle>>

\* a database the earlier revision ran on: gs_sql.main's tables, with the
\* columns and the table enrich_companies.main adds
LegacySchema == RunAllDdl(RunAllDdl(EmptySchema, GsSqlDdl).schema, EnrichCompaniesDdl).schema

InitPosts ==
    /\ schema \in {EmptySchema, LegacySchema}
    /\ setupSchema = None
    /\ posts = {} /\ scrapes = <<>> /\ engagers = {} /\ now = 0
    /\ queue = <<>> /\ running = FALSE /\ lastAttempt = None /\ lastQuery = None
    /\ scrapeCalls = NoCalls
    /\ ingests = NoIngests
    /\ IdleEnv
    /\ IdleEnrich
    /\ IdleCrm

NextPosts ==
    \/ SetupDatabaseMain
    \/ GsSqlMain
    \/ EnrichCompaniesSetup
    \/ EnrichPostsMain
    \/ LegacyEnrichPosts

SpecPosts == InitPosts /\ [][NextPosts]_vars


\* C14: once setup_database.main has succeeded, a later run of it with the
\* database reachable, whatever stages ran in between, succeeds and leaves
\* the schema the earlier run committed.
C14_SetupIdempotent ==
    [][ (lastStep'.applier = "setup" /\ lastStep'.fault = "none" /\ setupSchema # None) =>
            (~lastStep'.raised /\ schema' = setupSchema)
      ]_vars

\* C16: an entry point that met a fatal error (database unreachable, a
\* mandatory credential missing) ended with a raised exception.
C16_FatalErrorsRaise ==
    (lastStep # None /\ lastStep.fault # "none") => lastStep.raised

\* C17: no step turns a post's enriched flag from true to false or sets an
\* enrichment column that held a value to NULL.
C17_PostEnrichmentNeverRegresses ==
    [][ \A p \in posts : \A q \in posts' :
            p.id = q.id =>
                /\ p.enriched => q.enriched
                /\ p.text # NULL => q.text # NULL
                /\ p.duration # NULL => q.duration # NULL
      ]_vars


(***************************************************************************)
(* The three push stages side by side (SpecPush): include/sql_hs.py,       *)
(* sync_sql_to_hubspot.py and scripts/sql_hs.py on a store with one person *)
(* and one company page.                                                   *)
(***************************************************************************)
PushDb ==
    LET df == [post_url |-> "post2", total_reactions |-> 3,
               rows |-> <<RowJane, RowAcmePage>>]
    IN  IngestScrape(EmptyDb, df, 0, NoFail(df)).db

InitPush ==
    /\ posts = PushDb.posts
    /\ scrapes = PushDb.scrapes
    /\ engagers = PushDb.engagers
    /\ now = 0
    /\ IdleSchema
    /\ IdleEnv
    /\ queue = <<>> /\ running = FALSE /\ lastAttempt = None /\ lastQuery = None
    /\ scrapeCalls = NoCalls
    /\ ingests = NoIngests
    /\ IdleEnrich
    /\ remote = CrmContacts
    /\ lastPass = None /\ createCount = [k \in {} |-> 0]
    /\ allCreatesOk = TRUE /\ passes = 0

NextPush ==
    \/ SqlHsMain
    \/ SyncSqlToHubspotMain
    \/ LegacySqlHsMain

SpecPush == InitPush /\ [][NextPush]_vars

\* C15: no pass sends a create request for a profile URL without '/in/'.
C15_NoCreateForNonPerson ==
    lastPass # None =>
        \A i \in 1..Len(lastPass.creates) : Contains(lastPass.creates[i], InPattern)


(***************************************************************************)
(* The Scheduler Query of include/scrape.py over a table with more rows    *)
(* than one batch.                                                         *)
(***************************************************************************)
QueryUrl(i) == <<"post1", "post2", "post3", "post4", "post5", "post6">>[i]

\* a linkedin_posts table of six rows: those of S were scraped on day 0, and
\* post 4 has used up its scrapes when maxed
QueryPosts(S, maxed) ==
    { [id |-> i, post_url |-> QueryUrl(i),
       last_scraped_at |-> IF i \in S \/ (i = 4 /\ maxed) THEN 0 ELSE NullTime,
       scrape_count |-> IF i = 4 /\ maxed THEN MaxScrapes ELSE IF i \in S THEN 1 ELSE 0,
       total_reactions |-> 0] : i \in 1..6 }

InitQuery ==
    /\ \E S \in SUBSET {2, 3, 5} : \E maxed \in BOOLEAN : posts = QueryPosts(S, maxed)
    /\ scrapes = <<>>
    /\ engagers = {}
    /\ now = 0
    /\ IdleSchema
    /\ IdleEnv
    /\ queue = <<>> /\ running = FALSE /\ lastAttempt = None /\ lastQuery = None
    /\ scrapeCalls = NoCalls
    /\ ingests = NoIngests
    /\ IdleEnrich
    /\ IdleCrm

NextQuery ==
    \/ ScrapeMainStart
    \/ ScrapeRaises
    \/ ScrapeMainFinish
    \/ Tick

SpecQuery == InitQuery /\ [][NextQuery]_vars

C19_CompanySelectorHasUrl ==
    enriching = "companies" =>
        \A id \in todo :
            LET e == EngagerOf(engagers, id)
            IN  /\ ~UrlIsEmpty(e.linkedin_url)
                /\ (IsEmpty(e.company) \/ IsEmpty(e.title))


\* C21: at every point of the audience batch loop fewer than 10 applied
\* updates are uncommitted, and when the loop ends the final commit makes
\* every successful update of the batch durable: the rows the batch updated
\* are in the table as the batch wrote them.
C21_CommitPolicy ==
    [][ /\ (enriching = "audience" => Cardinality(txn.undo) < 10)
        /\ (enriching = "audience" /\ enriching' = "idle" =>
                \A id \in txn.updated :
                    EngagerOf(engagers', id) = EngagerOf(engagers, id))
      ]_vars


\* C22: a failed update of one candidate does not abort the batch: every
\* later candidate is still processed and its update is committed.  Here: in
\* a company/title batch in which an earlier statement failed, a candidate
\* the scraper answered for and whose own UPDATE meets no error of its own
\* has its company and title written.
C22_FailedItemDoesNotAbortBatch ==
    [][ ( /\ enriching = "companies" /\ connAborted
          /\ lastStep' # lastStep
          /\ lastStep'.applier = "companies"
          /\ lastStep'.got # None
          /\ ~lastStep'.db_error )
        => /\ lastStep'.written = {"company", "title"}
           /\ EngagerOf(engagers', lastStep'.id).company = lastStep'.got.company
           /\ EngagerOf(engagers', lastStep'.id).title = lastStep'.got.title
      ]_vars


(***************************************************************************)
(* HubSpot contact enrichment: enrich_hubspot_contacts.main from the fetch *)
(* to the end of the company/title pass.                                   *)
(***************************************************************************)
NaNId == -1           \* str(float('nan')): the contact_id of a row without vid
CompanyTitleCap == 50 \* enrich_company_and_title: head(50)

\* pd.concat([hubspot_contacts_df, engagers_to_upload]): the fetched contacts,
\* then the uploaded local rows; a local row has NaN for vid, hs_linkedin_url,
\* company and jobtitle, and NaN is truthy
AllContacts(cs, rows) ==
    [i \in 1..Len(cs) |->
        [vid |-> cs[i].vid,
         url |-> IF cs[i].linkedin_url = NullUrl /\ rows # <<>>
                 THEN NullUrl ELSE cs[i].linkedin_url,
         skip |-> cs[i].linkedin_url = NullUrl /\ rows = <<>>,
         company |-> cs[i].company, jobtitle |-> cs[i].jobtitle]]
    \o [j \in 1..Len(rows) |->
        [vid |-> NaNId, url |-> NullUrl, skip |-> FALSE,
         company |-> NULL, jobtitle |-> NULL]]

\* contacts_needing_company_title: the rows missing a field, the first
\* CompanyTitleCap of them when there are more
ContactsNeedingCompanyTitle(all) ==
    LET match == {i \in DOMAIN all : NeedsCompanyTitleEnrichment(all[i])}
    IN  IF Cardinality(match) > CompanyTitleCap
        THEN {i \in match : Cardinality({j \in match : j < i}) < CompanyTitleCap}
        ELSE match

\* main lines 256-323: local query, fetch, difference, upload, re-fetch,
\* concat, then enrich_company_and_title up to its loop; n is the number of
\* runs counted after this one, failPages the requests of the first fetch
\* that may fail (0: none)
HubspotEnrichRun(n, failPages) ==
    /\ enriching = "idle"
    /\ passes' = n
    /\ \E failPage \in failPages :
        LET fetched == HubspotFetchListContacts(remote, failPage)
            to_upload == SyncToUpload(fetched, LocalEngagers(engagers, posts))
        IN  IF fetched = <<>>
            THEN \* hubspot_contacts_df['hs_linkedin_url'] raises KeyError
                 /\ lastPass' = [stage |-> "enrich_hubspot", fetched |-> fetched,
                                 failed |-> failPage # 0, creates |-> <<>>,
                                 candidates |-> <<>>, ok |-> {}, updates |-> {},
                                 refetched |-> <<>>, handed |-> <<>>]
                 /\ UNCHANGED <<remote, createCount, allCreatesOk, todo, enriching>>
            ELSE \E rows \in Perms(to_upload) : \E ok \in SUBSET (1..Len(rows)) :
                 \E failAgain \in {0, NRequests(remote)} :
                    LET urls == [i \in 1..Len(rows) |-> rows[i].linkedin_url]
                        pushed == PushAfter(remote, urls, ok, Len(PushRequests(urls, ok)))
                        refetched == IF rows = <<>> THEN fetched
                                     ELSE HubspotFetchListContacts(pushed, failAgain)
                        all == AllContacts(refetched, rows)
                    IN  /\ remote' = pushed
                        /\ createCount' = AddCreates(createCount, PushRequests(urls, ok))
                        /\ allCreatesOk' = (allCreatesOk /\ ok = 1..Len(urls))
                        /\ lastPass' = [stage |-> "enrich_hubspot", fetched |-> fetched,
                                        failed |-> failPage # 0,
                                        creates |-> PushRequests(urls, ok),
                                        candidates |-> urls, ok |-> ok, updates |-> {},
                                        refetched |-> refetched, handed |-> all]
                        /\ todo' = ContactsNeedingCompanyTitle(all)
                        /\ enriching' = "hs_main"
    /\ UNCHANGED <<envVars, ingests, schemaVars, storeVars, scrapeVars, connAborted, lastStep, txn>>

\* a run of enrich_hubspot_contacts.main, counted
HubspotEnrichStart ==
    /\ passes < MaxPasses
    /\ HubspotEnrichRun(passes + 1, 0..NRequests(remote))

\* the position of the contact with id vid in cs, 0 when there is none
IndexOfVid(cs, vid) ==
    IF \E i \in 1..Len(cs) : cs[i].vid = vid
    THEN CHOOSE i \in 1..Len(cs) : cs[i].vid = vid ELSE 0

\* contacts 1..CompanyTitleCap of a list whose LinkedIn profiles show no
\* current position, and the contact that follows them
StarvedUrl(i) == <<"/", "i", "n", "/", "u", ToString(i)>>

EmptyProfiles == {StarvedUrl(i) : i \in 1..CompanyTitleCap}

\* utils.scrape_company(url): what the actor returns depends on the profile;
\* a profile without a current position gives no company and no title
ScrapeCompany(url) ==
    IF url \in EmptyProfiles THEN {[company |-> NULL, title |-> NULL]}
    ELSE ScrapeCompanyResults

\* one iteration of the loop of enrich_company_and_title over the frame main
\* handed over, in the order of the frame: the row is skipped, or
\* scrape_company raises and ends the run, or it answers and the fields that
\* differ are sent to contact_id
HubspotEnrichRow ==
    /\ enriching = "hs_main" /\ todo # {}
    /\ LET i == CHOOSE k \in todo : \A j \in todo : k <= j
            c == lastPass.handed[i]
            before == [company |-> c.company, title |-> c.jobtitle]
        IN  \/ /\ c.skip
               /\ todo' = todo \ {i}
               /\ UNCHANGED <<remote, lastStep, enriching>>
            \/ /\ ~c.skip
               /\ todo' = {}
               /\ enriching' = "idle"
               /\ lastStep' = [applier |-> "hs_main", id |-> c.vid, url |-> c.url,
                               before |-> before, got |-> None, written |-> {}]
               /\ UNCHANGED remote
            \/ /\ ~c.skip
               /\ \E got \in ScrapeCompany(c.url) :
                    LET fields == UpdateFields(c, got)
                        k == IndexOfVid(remote, c.vid)
                    IN  /\ remote' = IF k = 0 THEN remote
                                     ELSE HubspotUpdateContactFields(remote, k, fields, got)
                        /\ lastStep' = [applier |-> "hs_main", id |-> c.vid, url |-> c.url,
                                        before |-> before, got |-> got,
                                        written |-> fields]
               /\ todo' = todo \ {i}
               /\ UNCHANGED enriching
    /\ UNCHANGED <<envVars, ingests, schemaVars, storeVars, scrapeVars, connAborted, txn,
                   lastPass, createCount, allCreatesOk, passes>>

\* enrich_company_and_title returns update_count
HubspotEnrichFinish ==
    /\ enriching = "hs_main" /\ todo = {}
    /\ enriching' = "idle"
    /\ UNCHANGED <<envVars, ingests, schemaVars, storeVars, scrapeVars, todo, connAborted, lastStep, txn, crmVars>>

NextRefetch ==
    \/ HubspotEnrichStart
    \/ HubspotEnrichRow
    \/ HubspotEnrichFinish

SpecRefetch == InitPush /\ [][NextRefetch]_vars

\* C23: when contacts were created in the pass, the contact set handed to the
\* enrichment passes is the re-fetched remote list, and every update request
\* issued afterwards targets a contact id returned by a remote fetch: none
\* is issued for the local row of a just-created contact.
C23_RefetchAfterWrite ==
    /\ (lastPass # None /\ lastPass.stage = "enrich_hubspot" /\ lastPass.creates # <<>>)
         => /\ Len(lastPass.handed) = Len(lastPass.refetched)
            /\ \A i \in 1..Len(lastPass.handed) :
                  lastPass.handed[i].vid = lastPass.refetched[i].vid
    /\ (lastStep # None /\ lastStep.applier = "hs_main" /\ lastStep.written # {})
         => \E i \in 1..Len(lastPass.refetched) : lastPass.refetched[i].vid = lastStep.id


(***************************************************************************)
(* Field sync of include/sql_hs.py over a profile with two engager rows    *)
(* that enrich_companies filled at different times.                        *)
(***************************************************************************)
\* Jane's rows (one per post she reacted to) after two enrich_companies
\* runs between which her profile changed its company
SyncEngagers ==
    LET ids == {e.id : e \in {x \in CrmDb.engagers : x.linkedin_url = UrlJane}}
        first == CHOOSE i \in ids : \A j \in ids : i <= j
        second == CHOOSE i \in ids : i # first
    IN  UpdateEngager(UpdateEngager(CrmDb.engagers, first, "Acme", "CEO"),
                      second, "Beta", "CEO")

InitSync ==
    /\ posts = CrmDb.posts
    /\ scrapes = CrmDb.scrapes
    /\ engagers = SyncEngagers
    /\ now = 0
    /\ IdleSchema
    /\ IdleEnv
    /\ queue = <<>> /\ running = FALSE /\ lastAttempt = None /\ lastQuery = None
    /\ scrapeCalls = NoCalls
    /\ ingests = NoIngests
    /\ IdleEnrich
    /\ remote = << [vid |-> 101, linkedin_url |-> UrlJane, company |-> NULL,
                    jobtitle |-> NULL] >>
    /\ lastPass = None /\ createCount = [k \in {} |-> 0]
    /\ allCreatesOk = TRUE /\ passes = 0

NextSync ==
    \/ SqlHsMain
    \/ SyncSqlToHubspotMain
    \/ Tick

SpecSync == InitSync /\ [][NextSync]_vars

VarNames == {"HUBSPOT_API_KEY", "HUBSPOT_LIST_ID"}

\* "absent": from airflow.models import Variable raises ImportError;
\* "error": Variable.get raises (the metadata database cannot be reached);
\* "present": Variable.get answers
AirflowContexts == {"absent", "error", "present"}

Configs ==
    [airflow : AirflowContexts,
     variables : [VarNames -> {NULL, "variable"}],
     environ : [VarNames -> {NULL, "env"}]]

Defaults == {NULL, "246"}

\* Variable.get(var_name, default_var=default): the Variable's value, else
\* default_var (None included: None is not Airflow's no-default sentinel)
VariableGet(c, name, default) ==
    IF c.variables[name] # NULL THEN c.variables[name] ELSE default

\* os.getenv(var_name, default)
OsGetenv(c, name, default) ==
    IF c.environ[name] # NULL THEN c.environ[name] ELSE default

\* get_env_var: [raised, value]
GetEnvVar(c, name, default) ==
    LET fromAirflow == IF c.airflow = "present" THEN VariableGet(c, name, default)
                       ELSE NULL
        value == OsGetenv(c, name, default)
    IN  IF fromAirflow # NULL THEN [raised |-> FALSE, value |-> fromAirflow]
        ELSE IF value = NULL THEN [raised |-> TRUE, value |-> NULL]
        ELSE [raised |-> FALSE, value |-> value]

\* get_required_env_var
GetRequiredEnvVar(c, name) == GetEnvVar(c, name, NULL)

\* get_optional_env_var: except ValueError: return default
GetOptionalEnvVar(c, name, default) ==
    LET r == GetEnvVar(c, name, default)
    IN  IF r.raised THEN [raised |-> FALSE, value |-> default] ELSE r

GetEnvVarCall ==
    /\ \E name \in VarNames : \E default \in Defaults :
          lastCall' = [fn |-> "get_env_var", name |-> name, default |-> default,
                       result |-> GetEnvVar(config, name, default)]
    /\ UNCHANGED <<config, ingests, schemaVars, storeVars, scrapeVars, enrichVars, crmVars>>

GetRequiredEnvVarCall ==
    /\ \E name \in VarNames :
          lastCall' = [fn |-> "get_required_env_var", name |-> name, default |-> NULL,
                       result |-> GetRequiredEnvVar(config, name)]
    /\ UNCHANGED <<config, ingests, schemaVars, storeVars, scrapeVars, enrichVars, crmVars>>

GetOptionalEnvVarCall ==
    /\ \E name \in VarNames : \E default \in Defaults :
          lastCall' = [fn |-> "get_optional_env_var", name |-> name, default |-> default,
                       result |-> GetOptionalEnvVar(config, name, default)]
    /\ UNCHANGED <<config, ingests, schemaVars, storeVars, scrapeVars, enrichVars, crmVars>>

InitEnv ==
    /\ config \in Configs
    /\ lastCall = None
    /\ posts = {} /\ scrapes = <<>> /\ engagers = {} /\ now = 0
    /\ IdleSchema
    /\ queue = <<>> /\ running = FALSE /\ lastAttempt = None /\ lastQuery = None
    /\ scrapeCalls = NoCalls
    /\ ingests = NoIngests
    /\ IdleEnrich
    /\ IdleCrm

NextEnv ==
    \/ GetEnvVarCall
    \/ GetRequiredEnvVarCall
    \/ GetOptionalEnvVarCall

SpecEnv == InitEnv /\ [][NextEnv]_vars

\* C25: a getter returns the Airflow Variable when one is set, otherwise the
\* OS environment variable when one is set, otherwise the default, and
\* get_env_var raises ValueError only when none of the three exists;
\* get_optional_env_var returns an OS environment value in preference to
\* its default; get_required_env_var raises when the variable is set nowhere.
C25_EnvVarPrecedence ==
    lastCall # None =>
        LET c == lastCall
            variable == IF config.airflow = "present"
                        THEN config.variables[c.name] ELSE NULL
            env == config.environ[c.name]
        IN  IF variable # NULL THEN c.result = [raised |-> FALSE, value |-> variable]
            ELSE IF env # NULL THEN c.result = [raised |-> FALSE, value |-> env]
            ELSE IF c.default # NULL
                 THEN c.result = [raised |-> FALSE, value |-> c.default]
            ELSE IF c.fn = "get_optional_env_var"
                 THEN c.result = [raised |-> FALSE, value |-> NULL]
            ELSE c.result.raised


(***************************************************************************)
(* Repeated runs of the scrape stage, within one day, over six tracked     *)
(* posts none of which was scraped yet: the scheduler starts run after     *)
(* run, a started loop goes on, a loop at its end closes.                  *)
(***************************************************************************)
InitRuns ==
    /\ InitQuery
    /\ posts = QueryPosts({}, FALSE)

NextRuns ==
    \/ ScrapeMainStart
    \/ ScrapeRaises
    \/ IngestRaises
    \/ IngestOk
    \/ ScrapeMainFinish

\* fairness of the scheduler and of a running task: a next run always
\* starts (ScrapeMainStart is enabled whenever no run is in its loop and is
\* the one step that sets the flag, so its weak fairness is []<>running), a
\* run in its loop takes its next iteration (every iteration ends, by a
\* result or by an exception that is caught), and a loop at its end closes
SpecRuns ==
    /\ InitRuns
    /\ [][NextRuns]_vars
    /\ []<>running
    /\ WF_vars(ScrapeRaises \/ IngestRaises \/ IngestOk)
    /\ WF_vars(ScrapeMainFinish)

\* C26: under repeated runs every post that stays eligible is eventually
\* attempted, also when other posts fail on every attempt: for each post,
\* eventually it is the post of a loop iteration or it is not eligible.
C26_NoStarvation ==
    \A i \in 1..6 :
        <>( \/ (lastAttempt # None /\ lastAttempt.link = QueryUrl(i))
            \/ ~Eligible(PostOf(posts, QueryUrl(i)), now) )


(***************************************************************************)
(* Scrape-stage runs with the calls of the scraper counted per tracked     *)
(* link.                                                                   *)
(***************************************************************************)
InitCalls ==
    /\ posts = { [id |-> 1, post_url |-> "post1?utm=x", last_scraped_at |-> NullTime,
                  scrape_count |-> 0, total_reactions |-> 0],
                 [id |-> 2, post_url |-> "post2", last_scraped_at |-> NullTime,
                  scrape_count |-> 0, total_reactions |-> 0] }
    /\ scrapes = <<>>
    /\ engagers = {}
    /\ now = 0
    /\ IdleSchema
    /\ IdleEnv
    /\ queue = <<>> /\ running = FALSE /\ lastAttempt = None /\ lastQuery = None
    /\ scrapeCalls = [u \in {"post1?utm=x", "post2"} |-> 0]
    /\ ingests = NoIngests
    /\ IdleEnrich
    /\ IdleCrm

NextCalls ==
    \/ ScrapeMainStart
    \/ ScrapeRaises
    \/ IngestRaises
    \/ IngestOk
    \/ ScrapeMainFinish
    \/ Tick

SpecCalls == InitCalls /\ [][NextCalls]_vars

\* C27: over any sequence of scrape-stage runs the number of scrape calls
\* issued for one post URL of linkedin_posts never exceeds MAX_SCRAPES (5),
\* whatever the scrape results are.
C27_BoundedScrapesPerPost ==
    \A u \in DOMAIN scrapeCalls : scrapeCalls[u] <= 5


(***************************************************************************)
(* Overlapping executions of ingest_scrape: each opens its own connection, *)
(* reads the post's scrape_count, then writes and commits (READ COMMITTED: *)
(* the UPDATE of the second waits for the commit of the first).            *)
(***************************************************************************)
\* ingest_scrape(df) up to the fetchone() of its SELECT
IngestRead(w) ==
    /\ ingests[w].pc = "idle"
    /\ \E link \in {p.post_url : p \in posts} : \E df \in ScrapeResults(link) :
          ingests' = [ingests EXCEPT ![w] =
                        [pc |-> "read", df |-> df,
                         result |-> SelectScrapeCount(posts, df.post_url)]]
    /\ UNCHANGED <<envVars, schemaVars, storeVars, queue, running, lastAttempt,
                   lastQuery, scrapeCalls, enrichVars, crmVars>>

\* the rest of ingest_scrape: the post's INSERT or UPDATE, the scrape event,
\* the engagers, commit; an exception rolls the transaction back
IngestWrite(w) ==
    /\ ingests[w].pc = "read"
    /\ LET df == ingests[w].df
           r == WritePost(Db, df.post_url, now, df.total_reactions, ingests[w].result)
           after == RestOfTx(r.db, df, now, Len(df.rows))
       IN  /\ posts' = IF r.ok THEN after.posts ELSE posts
           /\ scrapes' = IF r.ok THEN after.scrapes ELSE scrapes
           /\ engagers' = IF r.ok THEN after.engagers ELSE engagers
           /\ ingests' = [ingests EXCEPT ![w] =
                            [pc |-> "done", df |-> df, result |-> ingests[w].result,
                             raised |-> ~r.ok]]
    /\ UNCHANGED <<envVars, schemaVars, now, queue, running, lastAttempt,
                   lastQuery, scrapeCalls, enrichVars, crmVars>>

InitOverlap ==
    /\ posts = { [id |-> 1, post_url |-> "post1?utm=x", last_scraped_at |-> NullTime,
                  scrape_count |-> 0, total_reactions |-> 0],
                 [id |-> 2, post_url |-> "post2", last_scraped_at |-> NullTime,
                  scrape_count |-> 0, total_reactions |-> 0] }
    /\ scrapes = <<>>
    /\ engagers = {}
    /\ now = 0
    /\ IdleSchema
    /\ IdleEnv
    /\ queue = <<>> /\ running = FALSE /\ lastAttempt = None /\ lastQuery = None
    /\ scrapeCalls = NoCalls
    /\ ingests = NoIngests
    /\ IdleEnrich
    /\ IdleCrm

NextOverlap ==
    \/ \E w \in Workers : IngestRead(w)
    \/ \E w \in Workers : IngestWrite(w)

SpecOverlap == InitOverlap /\ [][NextOverlap]_vars

\* C28: when two ingest_scrape executions for the same existing post overlap
\* (both read scrape_count before either commits), after both commit the
\* post's scrape_count has increased by 2 and equals the number of Scrape
\* Event rows added for the post.
C28_NoLostUpdate ==
    ( /\ \A w \in Workers : ingests[w].pc = "done" /\ ~ingests[w].raised
      /\ ingests[1].df.post_url = ingests[2].df.post_url
      /\ ingests[1].result # None
      /\ ingests[1].result = ingests[2].result )
    => LET u == ingests[1].df.post_url
       IN  /\ ScrapeCount(posts, u) = ingests[1].result.scrape_count + 2
           /\ ScrapeCount(posts, u)
                = Cardinality({i \in 1..Len(scrapes) : scrapes[i].post_url = u})


(***************************************************************************)
(* Repeated runs of the company/title pass of enrich_hubspot_contacts over *)
(* a list of CompanyTitleCap + 1 contacts without company and title, the   *)
(* first CompanyTitleCap of them with profiles that show no position: the  *)
(* scheduler starts run after run and every run ends.                      *)
(***************************************************************************)
StarvedContacts ==
    [i \in 1..(CompanyTitleCap + 1) |->
        [vid |-> 100 + i, linkedin_url |-> StarvedUrl(i),
         company |-> NULL, jobtitle |-> NULL]]

InitStarved ==
    /\ posts = {}
    /\ scrapes = <<>>
    /\ engagers = {}
    /\ now = 0
    /\ IdleSchema
    /\ IdleEnv
    /\ queue = <<>> /\ running = FALSE /\ lastAttempt = None /\ lastQuery = None
    /\ scrapeCalls = NoCalls
    /\ ingests = NoIngests
    /\ IdleEnrich
    /\ remote = StarvedContacts
    /\ lastPass = None /\ createCount = [k \in {} |-> 0]
    /\ allCreatesOk = TRUE /\ passes = 0

\* a run of enrich_hubspot_contacts.main that fetches every page of the list,
\* not counted
HubspotEnrichRerun == HubspotEnrichRun(passes, {0})

NextStarved ==
    \/ HubspotEnrichRerun
    \/ HubspotEnrichRow
    \/ HubspotEnrichFinish

\* fairness of the scheduler and of a running task: a next run always
\* starts and reaches the pass (HubspotEnrichRerun is enabled whenever no
\* pass is in its loop and is the one step that opens the loop), a pass in
\* its loop takes its next iteration, and a loop at its end returns; and the
\* scraper recovers: from some run on it answers every call
SpecStarved ==
    /\ InitStarved
    /\ [][NextStarved]_vars
    /\ []<>(enriching = "hs_main")
    /\ WF_vars(HubspotEnrichRow)
    /\ WF_vars(HubspotEnrichFinish)
    /\ <>[](lastStep # None /\ lastStep.got # None)

\* C29: under repeated runs every remote contact that is missing company or
\* title is eventually passed to the company scraper, also when the scraper
\* keeps returning no data for contacts before it in the fetched list: for
\* each contact, eventually it is the row of a loop iteration that called
\* the scraper, or it misses no field.
C29_NoContactStarved ==
    \A i \in 1..Len(StarvedContacts) :
        <>( \/ ( /\ lastStep # None /\ lastStep.applier = "hs_main"
                 /\ lastStep.id = StarvedContacts[i].vid )
            \/ ~NeedsCompanyTitleEnrichment(remote[i]) )


(***************************************************************************)
(* Reconciliation against a list that holds no contact yet: the scrape     *)
(* stage fills the store, include/sql_hs.py and sync_sql_to_hubspot.py run *)
(* between its steps.                                                      *)
(***************************************************************************)
NextBootstrap ==
    \/ NextIngest
    \/ SqlHsMain
    \/ SyncSqlToHubspotMain

SpecBootstrap == InitIngest /\ [][NextBootstrap]_vars

\* the profile URLs of the local person-profile contacts
LocalPersonUrls == {r.linkedin_url : r \in {x \in LocalEngagers(engagers, posts) :
                                              Contains(x.linkedin_url, InPattern)}}

\* C30: when the fetch of the remote list succeeds and returns no contact,
\* the reconciliation pass issues one create request for each local
\* person-profile contact.
C30_BootstrapEmptyList ==
    [][ ( /\ passes' # passes
          /\ lastPass'.stage \in {"sql_hs", "sync"}
          /\ lastPass'.fetched = <<>> /\ ~lastPass'.failed )
        => /\ {lastPass'.creates[i] : i \in 1..Len(lastPass'.creates)} = LocalPersonUrls
           /\ Len(lastPass'.creates) = Cardinality(LocalPersonUrls)
      ]_vars

====
